---- MODULE Spec2Model ----
(***************************************************************************)
(* A model of the ptoj-judger worker.                                      *)
(*                                                                         *)
(*   Spec       the judging pipeline of one Judger (judger/judger.py) with *)
(*              its checker (judger/checker.py) against a sandbox whose    *)
(*              answers are chosen nondeterministically.                   *)
(*   SpecCache  the FileCache of judger/client.py under discrete time.     *)
(*   SpecSched  the Scheduler and its Processors (judger/scheduler.py)     *)
(*              against a Redis list whose operations may fail.            *)
(*                                                                         *)
(* Every coroutine is cut at its await points: one action is the code      *)
(* between two suspensions, together with the answer of the awaited call.  *)
(***************************************************************************)
EXTENDS Integers, Sequences, FiniteSets, TLC

\* ------------------------------------------------------------------ bounds

\* The longest testcase list of a submission.
MaxTests == 2

\* How many times get_result() is called on one Judger.
MaxCalls == 2

\* How many set calls the callers of a FileCache make.
MaxSets == 2

\* How far the clock runs.
MaxTime == 4

\* How many payloads the producers push.
MaxSubs == 2

\* How many calls are made on one checker, on one client, on the registry.
MaxOps == 3

\* ------------------------------------------------------------ state

VARIABLES
    \* --- Judger (judger.py) ---
    submission,     \* the Submission handed to Judger.__init__
    result,         \* self.result : SubmissionResult
    compiled_file,  \* self.compiled_file : fileId or None
    checker_file,   \* self.checker.compiled_file : fileId or None
    cleanup_tasks,  \* self.cleanup_tasks : the delete tasks created so far
    pc,             \* where the get_result() coroutine is suspended
    idx,            \* position of the for loop of run() in submission.testcases
    skipped,        \* the local `skipped` of run()
    cur,            \* locals of run_testcase_tradition across the checker await
    http,           \* every call the sandbox client has been asked to make
    nextId,         \* the next file id the sandbox hands out
    calls,          \* how many get_result() calls have returned
    answer,         \* what the sandbox answered to the latest /run
    \* --- FileCache (client.py) ---
    files,          \* self.files : identifier -> fileId
    last_access,    \* self.last_access : identifier -> time
    recycle_task,   \* self.recycle_task : none, created, sleeping, cancelled
    wake,           \* when the sleep of recycle() ends
    c_closed,       \* self._closed
    c_tasks,        \* self.cleanup_tasks : the delete tasks of the cache
    c_pc,           \* where close() is suspended; "gather" holds self._lock
    now,            \* the event loop's clock
    ops,            \* how many set calls were made
    ret,            \* what the get() that is returning returns
    touched,        \* per identifier, the time of its last set or get hit
    expected,       \* per identifier, the file of its last set since close() ran
    c_last,         \* the set() or close() that has just ended, and what it found
    given,          \* per file, how many set calls were given it
    \* --- Scheduler and Processor (scheduler.py) ---
    running,        \* Scheduler.running
    task_queue,     \* the Redis list judger:task
    result_queue,   \* the Redis list judger:result
    worker,         \* per processor task: its position and its submission
    produced,       \* how many payloads the producers have pushed
    push_raised,    \* the sids for which a push to the result queue raised
    finished,       \* the sids whose process() call has ended
    stop_call,       \* where stop() is, and the sids held when it was called
    \* --- a checker used on its own (checker.py) ---
    k_class,        \* the class of the checker: TestlibChecker or DefaultChecker
    k_file,         \* self.compiled_file : fileId or None
    k_log,          \* every call the checker has made on its client
    k_next,         \* the next file id the sandbox hands out
    k_ops,          \* how many calls were made on the checker
    k_last,         \* the call that has just ended, and what it found
    \* --- a SandboxClient and the sandbox's files (client.py) ---
    store,          \* the file ids the sandbox holds
    h_next,         \* the next file id the sandbox hands out
    h_ops,          \* how many calls were made on the client
    h_last,         \* the call that has just ended, and how
    \* --- the LanguageRegistry (language.py) ---
    l_mapping,      \* LanguageRegistry._mapping
    l_entered,      \* the (language, config) pairs of the registers that returned
    l_ops,          \* how many calls were made on the registry
    l_last          \* the call that has just ended, and how

jvars == <<submission, result, compiled_file, checker_file, cleanup_tasks,
           pc, idx, skipped, cur, nextId, calls, answer>>

cvars == <<files, last_access, recycle_task, wake, c_closed, c_tasks, c_pc,
           now, ops, ret, touched, expected, c_last, given>>

svars == <<running, task_queue, result_queue, worker, produced, push_raised,
           finished, stop_call>>

kvars == <<k_class, k_file, k_log, k_next, k_ops, k_last>>

\* The components that run on their own, next to the three above.
hvars == <<store, h_next, h_ops, h_last>>

lvars == <<l_mapping, l_entered, l_ops, l_last>>

xvars == <<kvars, hvars, lvars>>

vars == <<jvars, http, cvars, svars, xvars>>

\* Optional[PreparedFile] = None; file ids are the positive integers.
None == 0

\* ------------------------------------------------------------ models.py

JudgeStatus ==
    {"Pending", "RunningJudge", "CompileError", "Accepted", "RuntimeError",
     "WrongAnswer", "TimeLimitExceeded", "MemoryLimitExceeded",
     "OutputLimitExceeded", "PresentationError", "SystemError",
     "RejudgePending", "Skipped"}

SandboxStatus ==
    {"Accepted", "Memory Limit Exceeded", "Time Limit Exceeded",
     "Output Limit Exceeded", "File Error", "Nonzero Exit Status",
     "Signalled", "Internal Error"}

Language == {"C", "Cpp11", "Java", "Python", "Cpp17"}

ProblemType == {"Traditional", "Interaction", "SpecialJudge"}

\* TestcaseResult(uuid, time=0, memory=0, judge=Pending)
TestcaseResult(uuid, time, memory, judge) ==
    [uuid |-> uuid, time |-> time, memory |-> memory, judge |-> judge]

\* SubmissionResult(sid, time=0, memory=0, testcases=[], judge, error='')
SubmissionResult(sid, judge) ==
    [sid |-> sid, time |-> 0, memory |-> 0, testcases |-> <<>>,
     judge |-> judge, error |-> ""]

\* ------------------------------------------------------------ language.py

\* The fields of the registered LanguageConfig entries the pipeline reads.
LanguageConfig(need_compile, time_factor, memory_factor) ==
    [need_compile |-> need_compile, time_factor |-> time_factor,
     memory_factor |-> memory_factor]

LanguageRegistry_get_config(lang) ==
    CASE lang = "C"      -> LanguageConfig(TRUE, 1, 1)
      [] lang = "Cpp11"  -> LanguageConfig(TRUE, 1, 1)
      [] lang = "Cpp17"  -> LanguageConfig(TRUE, 1, 1)
      [] lang = "Java"   -> LanguageConfig(TRUE, 2, 2)
      [] lang = "Python" -> LanguageConfig(TRUE, 1, 1)

language == LanguageRegistry_get_config(submission.language)

\* ------------------------------------------------------------ inputs

\* Testcase uuids are opaque strings; two distinct ones in either order and a
\* repeated one are enough to tell an aligned result vector from a reordered,
\* a duplicated and a truncated one.
Uuids == {"tc-a", "tc-b"}

RECURSIVE SeqsUpTo(_, _)
SeqsUpTo(S, n) ==
    IF n = 0 THEN {<<>>}
    ELSE LET shorter == SeqsUpTo(S, n - 1)
         IN  shorter \cup {Append(s, x) : s \in {t \in shorter : Len(t) = n - 1}, x \in S}

\* Submission.timeLimit (ms) and Submission.memoryLimit (KiB).
TimeLimits == {2}
MemoryLimits == {2}

\* The languages submissions are drawn from: the registered entries differ
\* only in their factors, 1 (C, Cpp11, Cpp17, Python) or 2 (Java).
SubmissionLanguages == {"Cpp17", "Java"}

Submissions ==
    [sid : {1},
     timeLimit : TimeLimits,
     memoryLimit : MemoryLimits,
     testcases : SeqsUpTo(Uuids, MaxTests),
     language : SubmissionLanguages,
     type : ProblemType]

\* What a sandbox reports for one command: <<time in ns, memory in bytes>>.
\* With the limits above, each report stays under one limit of every
\* language and exceeds the other, so the clamp of run_testcase acts and the
\* maximum of two testcases can differ from both of them.
Usages == {<<1500000, 9000>>, <<9000000, 1536>>}

\* ------------------------------------------------------------ sandbox log

\* One entry per call made on the SandboxClient. `ids` are the PreparedFile
\* ids the call refers to (copyIn of a /run, the path of a DELETE), `out`
\* the ids the answer of a /run returned in fileIds (copyOutCached).
RunCall(kind, tc, ids, out) ==
    [op |-> "run", kind |-> kind, tc |-> tc, ids |-> ids, out |-> out]
DeleteCall(id) ==
    [op |-> "DELETE", kind |-> "file", tc |-> 0, ids |-> {id}, out |-> {}]

\* asyncio.create_task(self.client.delete_file(id)): the task is created at
\* once and first runs (calls delete_file) when its creator next suspends.
DeleteTask(id) == [fileId |-> id, started |-> FALSE]

RECURSIVE DeleteCallsOf(_)
DeleteCallsOf(tasks) ==
    IF tasks = <<>> THEN <<>>
    ELSE (IF Head(tasks).started THEN <<>> ELSE <<DeleteCall(Head(tasks).fileId)>>)
         \o DeleteCallsOf(Tail(tasks))

StartAll(tasks) == [i \in DOMAIN tasks |-> [tasks[i] EXCEPT !.started = TRUE]]

\* The coroutine makes `call` on the client and suspends: the call is logged,
\* then every delete task created since the last suspension runs.
Await(call) == http \o <<call>> \o DeleteCallsOf(cleanup_tasks)

\* ------------------------------------------------------------ judger.py

\* A priority list with RuntimeError and WrongAnswer exchanged.
STATUS_PRIORITY_Swapped ==
    <<"SystemError", "OutputLimitExceeded", "MemoryLimitExceeded",
      "TimeLimitExceeded", "WrongAnswer", "RuntimeError", "PresentationError">>

STATUS_PRIORITY ==
    <<"SystemError", "OutputLimitExceeded", "MemoryLimitExceeded",
      "TimeLimitExceeded", "RuntimeError", "WrongAnswer", "PresentationError">>

\* A status map in which a signalled program is a sandbox failure.
STATUS_MAP_SignalledSystemError(status) ==
    CASE status = "Memory Limit Exceeded" -> "MemoryLimitExceeded"
      [] status = "Time Limit Exceeded"   -> "TimeLimitExceeded"
      [] status = "Output Limit Exceeded" -> "OutputLimitExceeded"
      [] status = "Nonzero Exit Status"   -> "RuntimeError"
      [] OTHER                            -> "SystemError"

STATUS_MAP(status) ==
    CASE status = "Memory Limit Exceeded" -> "MemoryLimitExceeded"
      [] status = "Time Limit Exceeded"   -> "TimeLimitExceeded"
      [] status = "Output Limit Exceeded" -> "OutputLimitExceeded"
      [] status = "Nonzero Exit Status"   -> "RuntimeError"
      [] status = "Signalled"             -> "RuntimeError"
      [] OTHER                            -> "SystemError"

\* A skip set that forgets TimeLimitExceeded.
SKIP_STATUS_NoTLE == {"MemoryLimitExceeded", "OutputLimitExceeded"}

\* A skip set that a SystemError engages as well.
SKIP_STATUS_WithSystemError ==
    {"MemoryLimitExceeded", "TimeLimitExceeded", "OutputLimitExceeded",
     "SystemError"}

SKIP_STATUS == {"MemoryLimitExceeded", "TimeLimitExceeded", "OutputLimitExceeded"}

Min(a, b) == IF a <= b THEN a ELSE b

\* min() where max() is meant.
MaxOf_Min(S) == CHOOSE x \in S : \A y \in S : x <= y

MaxOf(S) == CHOOSE x \in S : \A y \in S : y <= x

\* timeLimit and memoryLimit of run_testcase_*: ns and bytes.
timeLimit == 1000000 * submission.timeLimit * language.time_factor
memoryLimit == 1024 * submission.memoryLimit * language.memory_factor

\* The SandboxCmd of the user program of testcase tc (170-184, 239-249) as
\* a call on the client: its copyIn ids and its three limits.
UserRunCall(kind, tc, ids, out) ==
    [op |-> "run", kind |-> kind, tc |-> tc, ids |-> ids, out |-> out,
     cpuLimit |-> timeLimit, clockLimit |-> timeLimit * 2,
     memoryLimit |-> memoryLimit]

\* A recorded time that is converted but not clamped.
ClampedTime_Unclamped(usage) == usage[1] \div 1000000

\* result.time and result.memory of run_testcase_*: ms and KiB.
ClampedTime(usage) == Min(usage[1], timeLimit) \div 1000000
ClampedMemory(usage) == Min(usage[2], memoryLimit) \div 1024

\* What a /run can answer for one command. `raised` stands for every way
\* the call itself fails (transport error, raise_for_status, a malformed
\* body); `files` is the inline `files` mapping (None, without or with
\* stderr); `hasFile` tells whether `fileIds` holds the requested name.
\* Each caller draws the fields it reads.
Raised ==
    [raised |-> TRUE, status |-> "Internal Error", files |-> "None",
     hasFile |-> FALSE, exitStatus |-> 0, usage |-> <<0, 0>>]

CompileResults ==
    [raised : {FALSE}, status : SandboxStatus,
     files : {"None", "{}", "SyntaxError"}, hasFile : BOOLEAN,
     exitStatus : {0}, usage : {<<0, 0>>}] \cup {Raised}

RunResults ==
    [raised : {FALSE}, status : SandboxStatus, files : {"{}"},
     hasFile : BOOLEAN, exitStatus : {0}, usage : Usages] \cup {Raised}

CheckResults ==
    [raised : {FALSE}, status : SandboxStatus, files : {"{}"},
     hasFile : {FALSE}, exitStatus : 0..3, usage : {<<0, 0>>}] \cup {Raised}

\* The answer r to the /run of `kind` for testcase tc, as the pipeline reads
\* it; `interactor` is the status of the second command of an interactive
\* run, `usage` what was reported for the user program of the testcase.
Answer(kind, tc, r, interactor) ==
    [kind |-> kind, tc |-> tc, raised |-> r.raised, status |-> r.status,
     files |-> r.files, hasFile |-> r.hasFile, exitStatus |-> r.exitStatus,
     usage |-> r.usage, interactor |-> interactor]

NoAnswer == Answer("none", 0, Raised, "Accepted")

\* The part of a checker's answer r that check() reads: DefaultChecker the
\* exit code (checker.py:236), TestlibChecker the status (checker.py:130-135).
CheckerReads(r) ==
    IF r.raised THEN r
    ELSE IF submission.type = "Traditional"
         THEN [r EXCEPT !.status = "Accepted"]
         ELSE [r EXCEPT !.exitStatus = 0]

\* The interactor's status is read only after an Accepted user status
\* (judger.py:280-283).
InteractorRead(ru, ri) ==
    IF ~ru.raised /\ ru.status = "Accepted" THEN ri ELSE "Accepted"

\* The empty-testcases branch returns without storing a verdict.
AfterCompile_NoVerdict(judge, cf) ==
    IF judge # "Pending" THEN [judge |-> judge, pc |-> "cleanup"]
    ELSE IF language.need_compile /\ cf = None
         THEN [judge |-> "SystemError", pc |-> "cleanup"]
    ELSE IF Len(submission.testcases) = 0
         THEN [judge |-> "Pending", pc |-> "cleanup"]
    ELSE [judge |-> "Pending", pc |-> "checker_compile"]

\* A run() that goes on to the checker whatever compile() left.
AfterCompile_Unchecked(judge, cf) ==
    IF Len(submission.testcases) = 0
    THEN [judge |-> "SystemError", pc |-> "cleanup"]
    ELSE [judge |-> "Pending", pc |-> "checker_compile"]

\* Lines 324-338 of run(): what follows compile(), up to the checker.
AfterCompile(judge, cf) ==
    IF judge # "Pending" THEN [judge |-> judge, pc |-> "cleanup"]
    ELSE IF language.need_compile /\ cf = None
         THEN [judge |-> "SystemError", pc |-> "cleanup"]
    ELSE IF Len(submission.testcases) = 0
         THEN [judge |-> "SystemError", pc |-> "cleanup"]
    ELSE [judge |-> "Pending", pc |-> "checker_compile"]

\* get_result() without the test of the stored judge.
GetResult_AlwaysRun ==
    /\ pc = "idle"
    /\ calls < MaxCalls
    /\ pc' = "run"
    /\ UNCHANGED <<submission, result, compiled_file, checker_file,
                   cleanup_tasks, idx, skipped, cur, http, nextId, calls>>
    /\ answer' = NoAnswer
    /\ UNCHANGED <<cvars, svars, xvars>>

\* get_result(), lines 407-410 and 424-428: run the pipeline when the
\* stored judge is Pending, return the stored result otherwise.
GetResult ==
    /\ pc = "idle"
    /\ calls < MaxCalls
    /\ IF result.judge = "Pending"
       THEN pc' = "run" /\ calls' = calls
       ELSE pc' = "idle" /\ calls' = calls + 1
    /\ UNCHANGED <<submission, result, compiled_file, checker_file,
                   cleanup_tasks, idx, skipped, cur, http, nextId>>
    /\ answer' = NoAnswer
    /\ UNCHANGED <<cvars, svars, xvars>>

\* run(), lines 314-323, and compile(), lines 96-100: up to the first await.
Run ==
    /\ pc = "run"
    /\ IF result.judge # "Pending"
       THEN pc' = "cleanup" /\ result' = result
       ELSE IF language.need_compile /\ compiled_file = None
            THEN pc' = "compile" /\ result' = result
       ELSE LET nxt == AfterCompile(result.judge, compiled_file)
            IN  pc' = nxt.pc /\ result' = [result EXCEPT !.judge = nxt.judge]
    /\ UNCHANGED <<submission, compiled_file, checker_file, cleanup_tasks,
                   idx, skipped, cur, http, nextId, calls>>
    /\ answer' = NoAnswer
    /\ UNCHANGED <<cvars, svars, xvars>>

\* compile(), lines 103-141, with the answer r of its /run.
CompileOutcome(r) ==
    IF r.raised
    THEN [judge |-> "SystemError", error |-> "", file |-> None]
    ELSE IF r.status # "Accepted"
         THEN IF r.files = "None"
              THEN [judge |-> "SystemError", error |-> "", file |-> None]
              ELSE [judge |-> "CompileError",
                    error |-> IF r.files = "{}" THEN "" ELSE r.files,
                    file |-> None]
    ELSE IF r.hasFile
         THEN [judge |-> "Pending", error |-> "", file |-> nextId]
         ELSE [judge |-> "SystemError", error |-> "", file |-> None]

Compile ==
    /\ pc = "compile"
    /\ \E r \in CompileResults :
         LET out == CompileOutcome(r)
             nxt == AfterCompile(out.judge, out.file)
         IN  /\ http' = Await(RunCall("compile", 0, {},
                                      IF out.file = None THEN {} ELSE {nextId}))
             /\ cleanup_tasks' = StartAll(cleanup_tasks)
             /\ compiled_file' = out.file
             /\ nextId' = IF out.file = None THEN nextId ELSE nextId + 1
             /\ result' = [result EXCEPT !.judge = nxt.judge,
                                         !.error = out.error]
             /\ pc' = nxt.pc
             /\ answer' = Answer("compile", 0, r, "Accepted")
    /\ UNCHANGED <<submission, checker_file, idx, skipped, cur, calls>>
    /\ UNCHANGED <<cvars, svars, xvars>>

\* ------------------------------------------------------------ checker.py

\* TestlibChecker.compile (55-95) and DefaultChecker.compile (172-202) with
\* the answer r of the /run: the id stored in compiled_file, or "raise".
\* TestlibChecker reads testlib.h first and raises when it is missing.
CheckerCompileOutcome(r, testlibExists) ==
    IF submission.type # "Traditional" /\ ~testlibExists THEN "raise"
    ELSE IF r.raised THEN "raise"
    ELSE IF r.status # "Accepted" THEN "raise"
    ELSE IF ~r.hasFile THEN "raise"
    ELSE "compiled"

\* A comparator whose exit code 2 is read as a wrong answer.
DefaultChecker_check_NoPresentation(r) ==
    IF r.raised THEN "raise"
    ELSE CASE r.exitStatus = 0 -> "Accepted"
           [] r.exitStatus = 1 -> "WrongAnswer"
           [] r.exitStatus = 2 -> "WrongAnswer"
           [] OTHER            -> "raise"

\* DefaultChecker.STATUS_MAP and DefaultChecker.check (204-240): the
\* verdict is the comparator's exit code, any other code raises.
DefaultChecker_check(r) ==
    IF r.raised THEN "raise"
    ELSE CASE r.exitStatus = 0 -> "Accepted"
           [] r.exitStatus = 1 -> "WrongAnswer"
           [] r.exitStatus = 2 -> "PresentationError"
           [] OTHER            -> "raise"

\* A testlib checker that reads the exit code as DefaultChecker does.
TestlibChecker_check_ByExitCode(r) ==
    IF r.raised THEN "raise"
    ELSE CASE r.exitStatus = 0 -> "Accepted"
           [] r.exitStatus = 1 -> "WrongAnswer"
           [] OTHER            -> "SystemError"

\* TestlibChecker.check (97-135): the verdict is the sandbox status.
TestlibChecker_check(r) ==
    IF r.raised THEN "raise"
    ELSE IF r.status = "Accepted" THEN "Accepted"
    ELSE IF r.status = "Nonzero Exit Status" THEN "WrongAnswer"
    ELSE "SystemError"

\* self.checker, chosen by Judger.__init__ (85-91) from the problem type.
Checker_check(r) ==
    IF submission.type = "Traditional"
    THEN DefaultChecker_check(r)
    ELSE TestlibChecker_check(r)

\* ------------------------------------------------------------ judger.py: run()

\* run(), lines 340-349: `await self.checker.compile()` and its except.
CheckerCompile ==
    /\ pc = "checker_compile"
    /\ \E r \in CompileResults, testlibExists \in BOOLEAN :
         LET called == checker_file = None
                       /\ (submission.type = "Traditional" \/ testlibExists)
             out == IF checker_file # None THEN "compiled"
                    ELSE CheckerCompileOutcome(r, testlibExists)
             made == checker_file = None /\ out = "compiled"
         IN  /\ http' = IF called
                        THEN Await(RunCall("checker_compile", 0, {},
                                           IF made THEN {nextId} ELSE {}))
                        ELSE http
             /\ cleanup_tasks' = IF called THEN StartAll(cleanup_tasks)
                                 ELSE cleanup_tasks
             /\ answer' = IF called
                          THEN Answer("checker_compile", 0, r, "Accepted")
                          ELSE NoAnswer
             /\ checker_file' = IF made THEN nextId ELSE checker_file
             /\ nextId' = IF made THEN nextId + 1 ELSE nextId
             /\ IF out = "raise"
                THEN /\ result' = [result EXCEPT !.judge = "SystemError"]
                     /\ pc' = "cleanup"
                     /\ UNCHANGED <<idx, skipped>>
                ELSE /\ result' = result
                     /\ pc' = "loop"
                     /\ idx' = 1
                     /\ skipped' = FALSE
    /\ UNCHANGED <<submission, compiled_file, cur, calls>>
    /\ UNCHANGED <<cvars, svars, xvars>>

\* The result vector grows at its head instead of its tail.
LoopStep_Prepend(testcase_result) ==
    /\ result' = [result EXCEPT !.testcases = <<testcase_result>> \o @]
    /\ skipped' = (skipped \/ testcase_result.judge \in SKIP_STATUS)
    /\ idx' = idx + 1
    /\ pc' = IF idx = Len(submission.testcases) THEN "aggregate" ELSE "loop"

\* run(), lines 368-371 and the loop header: the result of the current
\* testcase is appended, skipping engages on a limit verdict, and the loop
\* moves on (to the aggregation after the last testcase).
LoopStep(testcase_result) ==
    /\ result' = [result EXCEPT !.testcases = Append(@, testcase_result)]
    /\ skipped' = (skipped \/ testcase_result.judge \in SKIP_STATUS)
    /\ idx' = idx + 1
    /\ pc' = IF idx = Len(submission.testcases) THEN "aggregate" ELSE "loop"

testcase == submission.testcases[idx]

\* run(), lines 351-355: a testcase after a limit verdict is not run.
SkipTestcase ==
    /\ pc = "loop"
    /\ skipped
    /\ LoopStep(TestcaseResult(testcase, 0, 0, "Skipped"))
    /\ UNCHANGED <<submission, compiled_file, checker_file, cleanup_tasks,
                   cur, http, nextId, calls>>
    /\ answer' = NoAnswer
    /\ UNCHANGED <<cvars, svars, xvars>>

\* get_runtime_dependencies(): the PreparedFile ids staged into the run.
RuntimeDependencies ==
    IF language.need_compile THEN {compiled_file} ELSE {}

\* run_testcase_tradition(), lines 147-199 up to the checker call, with
\* the answer r of the /run, and lines 357-367 of run() around it. A run
\* with status Accepted suspends again in checker.check().
RunTestcaseTradition ==
    /\ pc = "loop"
    /\ ~skipped
    /\ submission.type # "Interaction"
    /\ \E r \in RunResults :
         /\ answer' = Answer("testcase", idx, r, "Accepted")
         /\ http' = Await(UserRunCall("testcase", idx, RuntimeDependencies,
                                      IF r.raised \/ ~r.hasFile THEN {}
                                      ELSE {nextId}))
         /\ IF r.raised \/ ~r.hasFile
            THEN /\ LoopStep(TestcaseResult(testcase, 0, 0, "SystemError"))
                 /\ cleanup_tasks' = StartAll(cleanup_tasks)
                 /\ UNCHANGED <<cur, nextId>>
            ELSE /\ nextId' = nextId + 1
                 /\ IF r.status = "Accepted"
                    THEN /\ cur' = [time |-> ClampedTime(r.usage),
                                    memory |-> ClampedMemory(r.usage),
                                    output_file |-> nextId,
                                    usage |-> r.usage]
                         /\ pc' = "check"
                         /\ cleanup_tasks' = StartAll(cleanup_tasks)
                         /\ UNCHANGED <<result, skipped, idx>>
                    ELSE /\ cleanup_tasks' =
                              Append(StartAll(cleanup_tasks), DeleteTask(nextId))
                         /\ LoopStep(TestcaseResult(testcase,
                                ClampedTime(r.usage), ClampedMemory(r.usage),
                                STATUS_MAP(r.status)))
                         /\ cur' = cur
    /\ UNCHANGED <<submission, compiled_file, checker_file, calls>>
    /\ UNCHANGED <<cvars, svars, xvars>>

\* The files a check() is given. A file is <<"PreparedFile", id>>, or the
\* <<"input", i>> or <<"output", i>> of testcase i.
PreparedFile(fileId) == <<"PreparedFile", fileId>>

\* run_testcase_tradition(), lines 195-196: the positional arguments of
\* self.checker.check(testcase.input, testcase.output, output_file).
CheckArgs == <<<<"input", idx>>, <<"output", idx>>, PreparedFile(cur.output_file)>>

\* TestlibChecker.check(input_file, answer_file, output_file), lines
\* 117-122: the copyIn of its /run.
TestlibChecker_copyIn(input_file, answer_file, output_file) ==
    ("Checker" :> PreparedFile(checker_file)) @@ ("infile" :> input_file)
        @@ ("outfile" :> output_file) @@ ("ansfile" :> answer_file)

\* DefaultChecker.check(input_file, output_file, user_file), lines 224-229.
DefaultChecker_copyIn(input_file, output_file, user_file) ==
    ("Checker" :> PreparedFile(checker_file)) @@ ("tc.in" :> input_file)
        @@ ("tc.out" :> output_file) @@ ("user.out" :> user_file)

\* The copyIn of the check of the current testcase.
Checker_copyIn ==
    IF submission.type = "Traditional"
    THEN DefaultChecker_copyIn(CheckArgs[1], CheckArgs[2], CheckArgs[3])
    ELSE TestlibChecker_copyIn(CheckArgs[1], CheckArgs[2], CheckArgs[3])

\* The PreparedFile ids a copyIn refers to.
PreparedIds(copyIn) ==
    {copyIn[name][2] : name \in {n \in DOMAIN copyIn : copyIn[n][1] = "PreparedFile"}}

\* run_testcase_tradition(), lines 195-210, with the answer r of the
\* checker's /run: the verdict of the checker, then the delete task of the
\* captured stdout; a raising checker leaves through the except of run().
CheckTestcase ==
    /\ pc = "check"
    /\ \E r \in CheckResults :
         LET judge == Checker_check(r)
         IN  /\ answer' = Answer("check", idx,
                                 [CheckerReads(r) EXCEPT !.usage = cur.usage],
                                 "Accepted")
             /\ http' = Await(RunCall("check", idx,
                                      PreparedIds(Checker_copyIn), {}))
             /\ IF judge = "raise"
                THEN /\ LoopStep(TestcaseResult(testcase, 0, 0, "SystemError"))
                     /\ cleanup_tasks' = StartAll(cleanup_tasks)
                ELSE /\ LoopStep(TestcaseResult(testcase, cur.time,
                                                cur.memory, judge))
                     /\ cleanup_tasks' =
                          Append(StartAll(cleanup_tasks),
                                 DeleteTask(cur.output_file))
    /\ cur' = None
    /\ UNCHANGED <<submission, compiled_file, checker_file, nextId, calls>>
    /\ UNCHANGED <<cvars, svars, xvars>>

\* run_testcase_interaction(), lines 268-273: the pipes of the /run, each
\* from fd `in.fd` of command `in.index` to fd `out.fd` of command
\* `out.index`, the commands being [cmdUser, cmdInteractor].
pipeMapping ==
    <<[in |-> [index |-> 0, fd |-> 1], out |-> [index |-> 1, fd |-> 0]],
      [in |-> [index |-> 1, fd |-> 1], out |-> [index |-> 0, fd |-> 0]]>>

\* A verdict that does not look at the interactor.
InteractionVerdict_UserOnly(user_status, interactor_status) ==
    IF user_status # "Accepted" THEN STATUS_MAP(user_status)
    ELSE "Accepted"

\* run_testcase_interaction(), lines 280-286: the verdict of the two
\* statuses of an interactive run.
InteractionVerdict(user_status, interactor_status) ==
    IF user_status # "Accepted" THEN STATUS_MAP(user_status)
    ELSE IF interactor_status # "Accepted" THEN "WrongAnswer"
    ELSE "Accepted"

\* run_testcase_interaction(), lines 212-292: one /run of the user command
\* and the interactor, answered by ru and ri, or failing as a whole.
RunTestcaseInteraction ==
    /\ pc = "loop"
    /\ ~skipped
    /\ submission.type = "Interaction"
    /\ \E ru \in RunResults, ri \in SandboxStatus :
         /\ answer' = Answer("interaction", idx, ru, InteractorRead(ru, ri))
         /\ http' = Await(UserRunCall("interaction", idx,
                                      RuntimeDependencies \cup {checker_file},
                                      {}))
         /\ IF ru.raised
            THEN LoopStep(TestcaseResult(testcase, 0, 0, "SystemError"))
            ELSE LoopStep(TestcaseResult(testcase,
                    ClampedTime(ru.usage), ClampedMemory(ru.usage),
                    InteractionVerdict(ru.status, ri)))
    /\ cleanup_tasks' = StartAll(cleanup_tasks)
    /\ UNCHANGED <<submission, compiled_file, checker_file, cur, nextId, calls>>
    /\ UNCHANGED <<cvars, svars, xvars>>

\* run(), lines 387-405: the overall verdict of a list of testcase results.
Aggregated(testcases) ==
    LET judges == {testcases[i].judge : i \in DOMAIN testcases}
        listed == {i \in DOMAIN STATUS_PRIORITY : STATUS_PRIORITY[i] \in judges}
    IN  IF judges \subseteq {"Accepted"} THEN "Accepted"
        ELSE IF listed # {}
             THEN STATUS_PRIORITY[CHOOSE i \in listed : \A j \in listed : i <= j]
        ELSE "SystemError"

\* run(), lines 373-405: resources and verdict of the whole submission.
Aggregate ==
    /\ pc = "aggregate"
    /\ result' =
         IF Len(result.testcases) = 0
         THEN [result EXCEPT !.judge = "SystemError"]
         ELSE [result EXCEPT
                 !.time = MaxOf({result.testcases[i].time :
                                    i \in DOMAIN result.testcases}),
                 !.memory = MaxOf({result.testcases[i].memory :
                                    i \in DOMAIN result.testcases}),
                 !.judge = Aggregated(result.testcases)]
    /\ pc' = "cleanup"
    /\ UNCHANGED <<submission, compiled_file, checker_file, cleanup_tasks,
                   idx, skipped, cur, http, nextId, calls>>
    /\ answer' = NoAnswer
    /\ UNCHANGED <<cvars, svars, xvars>>

\* A cleanup that joins the tasks of the testcases only.
Cleanup_TestcaseTasksOnly ==
    /\ pc = "cleanup"
    /\ http' = http \o DeleteCallsOf(cleanup_tasks)
    /\ cleanup_tasks' = <<>>
    /\ pc' = "idle"
    /\ calls' = calls + 1
    /\ UNCHANGED <<submission, result, compiled_file, checker_file,
                   idx, skipped, cur, nextId>>
    /\ answer' = NoAnswer
    /\ UNCHANGED <<cvars, svars, xvars>>

\* cleanup(), lines 300-312, and the end of get_result(), lines 417-428:
\* the delete task of the compiled file joins the list, gather() lets
\* every task run, and the list is cleared unless a task raised (the
\* exception is logged by get_result); then the result is returned.
Cleanup ==
    /\ pc = "cleanup"
    /\ LET tasks == IF compiled_file # None
                    THEN Append(cleanup_tasks, DeleteTask(compiled_file))
                    ELSE cleanup_tasks
       IN  /\ http' = http \o DeleteCallsOf(tasks)
           /\ \E gatherRaised \in BOOLEAN :
                /\ gatherRaised => tasks # <<>>
                /\ cleanup_tasks' = IF gatherRaised THEN StartAll(tasks) ELSE <<>>
    /\ pc' = "idle"
    /\ calls' = calls + 1
    /\ UNCHANGED <<submission, result, compiled_file, checker_file,
                   idx, skipped, cur, nextId>>
    /\ answer' = NoAnswer
    /\ UNCHANGED <<cvars, svars, xvars>>

\* Judger.__init__, lines 52-93: the state after construction. Every member
\* of Language is registered, so get_config does not raise.
JudgerInit(S) ==
    /\ submission \in S
    /\ result = SubmissionResult(submission.sid, "Pending")
    /\ compiled_file = None
    /\ checker_file = None
    /\ cleanup_tasks = <<>>
    /\ pc = "idle"
    /\ idx = 0
    /\ skipped = FALSE
    /\ cur = None
    /\ http = <<>>
    /\ nextId = 1
    /\ calls = 0
    /\ answer = NoAnswer

Next ==
    \/ GetResult
    \/ Run
    \/ Compile
    \/ CheckerCompile
    \/ SkipTestcase
    \/ RunTestcaseTradition
    \/ CheckTestcase
    \/ RunTestcaseInteraction
    \/ Aggregate
    \/ Cleanup

\* ==================================================================
\* client.py: FileCache
\* ==================================================================

\* Time is counted in ticks of the event loop's clock. expire and
\* recycle_gap are configuration: tests/test_client.py builds the cache
\* with expire=0.1 and recycle_gap=0.05, i.e. 2 ticks and 1 tick of 50 ms.
Expire == 2

RecycleGap == 1

Keys == {"k1", "k2"}

\* The order in which a dict holding these identifiers is iterated.
KeyOrder == <<"k1", "k2">>

\* The fileIds of the PreparedFiles a caller stores.
CacheFiles == {1, 2}

\* Dict operations: d.get(k), d[k] = v, d.pop(k, None) for k in ks, {}.
DictGet(d, k) == IF k \in DOMAIN d THEN d[k] ELSE None

\* d.setdefault(k, v): an identifier already present keeps its value.
DictPut_Keep(d, k, v) ==
    [x \in DOMAIN d \cup {k} |-> IF x \in DOMAIN d THEN d[x] ELSE v]

DictPut(d, k, v) == [x \in DOMAIN d \cup {k} |-> IF x = k THEN v ELSE d[x]]

DictDrop(d, ks) == [x \in DOMAIN d \ ks |-> d[x]]

EmptyDict == [x \in {} |-> None]

\* asyncio.create_task(self.client.delete_file(file_id))
CacheTask(id) == [fileId |-> id, state |-> "created", raised |-> FALSE]

\* self._lock is held across an await only by close(), in its gather.
LockFree == c_pc # "gather"

\* A close() that schedules no delete for what the cache holds.
TasksFor_None(ks) == <<>>

RECURSIVE TasksFor(_)
TasksFor(ks) ==
    IF ks = <<>> THEN <<>>
    ELSE <<CacheTask(files[Head(ks)])>> \o TasksFor(Tail(ks))

RemoveAt(s, i) == SubSeq(s, 1, i - 1) \o SubSeq(s, i + 1, Len(s))

\* for task in self.cleanup_tasks: if task.done(): remove(task)
\* The list iterator keeps its index while the list shrinks under it.
RECURSIVE PruneDone(_, _)
PruneDone(tasks, i) ==
    IF i > Len(tasks) THEN tasks
    ELSE IF tasks[i].state = "done" THEN PruneDone(RemoveAt(tasks, i), i + 1)
    ELSE PruneDone(tasks, i + 1)

IsExpired_AtExpire(k) == now - last_access[k] >= Expire

\* if current_time - last_access > self.expire
IsExpired(k) == now - last_access[k] > Expire

\* No get() is returning.
NoReturn ==
    [key |-> "", value |-> None, want |-> None, since |-> 0,
     closed |-> FALSE, deleted |-> FALSE]

\* The files of the cache, self.files.values().
Stored == {files[k] : k \in DOMAIN files}

\* A call of set(k, f) or close() that has just ended: `old` is the file
\* set() found under k, `had` the files close() found in the cache, `tasks`
\* the length of cleanup_tasks when the call began, `end` how it ended.
Ended(op, k, f, old, had, end) ==
    [op |-> op, key |-> k, file |-> f, old |-> old, had |-> had,
     tasks |-> Len(c_tasks), end |-> end]

\* No set() and no close() has just ended.
NoCall == [op |-> "none", key |-> "", file |-> None, old |-> None,
           had |-> {}, tasks |-> 0, end |-> ""]

\* FileCache.get. ret holds what the call returns, together with what the
\* caller knew before it: the file last set under k, the time since k was
\* last set or found, whether close() had been called and whether a
\* DELETE had been sent for that file.
CacheGet ==
    /\ LockFree
    /\ \E k \in Keys :
         /\ ret' = [key |-> k, value |-> DictGet(files, k),
                    want |-> expected[k], since |-> now - touched[k],
                    closed |-> c_closed,
                    deleted |-> expected[k] \in
                                  UNION {http[n].ids : n \in DOMAIN http}]
         /\ IF k \in DOMAIN files
            THEN /\ last_access' = DictPut(last_access, k, now)
                 /\ touched' = [touched EXCEPT ![k] = now]
            ELSE UNCHANGED <<last_access, touched>>
    /\ c_last' = NoCall
    /\ UNCHANGED <<files, recycle_task, wake, c_closed, c_tasks, c_pc, now,
                   ops, expected, http>>
    /\ UNCHANGED given
    /\ UNCHANGED <<jvars, svars, xvars>>

\* FileCache.set
CacheSet ==
    /\ LockFree
    /\ ops < MaxSets
    /\ \E k \in Keys, f \in CacheFiles :
         /\ c_tasks' = IF k \in DOMAIN files
                       THEN Append(c_tasks, CacheTask(files[k]))
                       ELSE c_tasks
         /\ files' = DictPut(files, k, f)
         /\ last_access' = DictPut(last_access, k, now)
         /\ touched' = [touched EXCEPT ![k] = now]
         /\ expected' = [expected EXCEPT ![k] = f]
         /\ given' = [given EXCEPT ![f] = @ + 1]
         /\ c_last' = Ended("set", k, f, DictGet(files, k), {}, "returned")
    /\ recycle_task' = IF recycle_task = "none" /\ ~c_closed
                       THEN "created" ELSE recycle_task
    /\ ops' = ops + 1
    /\ ret' = NoReturn
    /\ UNCHANGED <<wake, c_closed, c_pc, now, http>>
    /\ UNCHANGED <<jvars, svars, xvars>>

\* An evictor that pops the expired identifiers from self.files only.
Recycle_FilesOnly ==
    /\ \/ recycle_task = "created"
       \/ recycle_task = "sleeping" /\ wake <= now
    /\ LET to_delete == SelectSeq(KeyOrder,
                            LAMBDA k : k \in DOMAIN last_access /\ IsExpired(k))
           gone == {to_delete[i] : i \in DOMAIN to_delete}
       IN  /\ c_tasks' = PruneDone(c_tasks \o TasksFor(to_delete), 1)
           /\ files' = DictDrop(files, gone)
           /\ last_access' = last_access
    /\ recycle_task' = "sleeping"
    /\ wake' = now + RecycleGap
    /\ ret' = NoReturn
    /\ c_last' = NoCall
    /\ UNCHANGED <<c_closed, c_pc, now, ops, touched, expected, http>>
    /\ UNCHANGED given
    /\ UNCHANGED <<jvars, svars, xvars>>

\* recycle(): one turn of the loop, _recycle() and the start of the sleep.
\* close() cancels the task in the step that sets _closed, so a live task
\* always finds _closed false and the lock free.
Recycle ==
    /\ \/ recycle_task = "created"
       \/ recycle_task = "sleeping" /\ wake <= now
    /\ LET to_delete == SelectSeq(KeyOrder,
                            LAMBDA k : k \in DOMAIN last_access /\ IsExpired(k))
           gone == {to_delete[i] : i \in DOMAIN to_delete}
       IN  /\ c_tasks' = PruneDone(c_tasks \o TasksFor(to_delete), 1)
           /\ files' = DictDrop(files, gone)
           /\ last_access' = DictDrop(last_access, gone)
    /\ recycle_task' = "sleeping"
    /\ wake' = now + RecycleGap
    /\ ret' = NoReturn
    /\ c_last' = NoCall
    /\ UNCHANGED <<c_closed, c_pc, now, ops, touched, expected, http>>
    /\ UNCHANGED given
    /\ UNCHANGED <<jvars, svars, xvars>>

\* close(), lines 57-65, from taking the lock to the gather or, with no
\* task to wait for, to the end.
CloseLocked ==
    LET tasks == c_tasks \o TasksFor(SelectSeq(KeyOrder,
                                        LAMBDA k : k \in DOMAIN files))
    IN  /\ c_tasks' = tasks
        /\ IF tasks # <<>>
           THEN /\ c_pc' = "gather"
                /\ c_last' = NoCall
                /\ UNCHANGED <<files, last_access>>
           ELSE /\ c_pc' = "idle"
                /\ c_last' = Ended("close", "", None, None, Stored, "returned")
                /\ files' = EmptyDict
                /\ last_access' = EmptyDict

\* close(), lines 47-55: a second call returns at once; the first sets
\* _closed and cancels the recycle task, which it then awaits.
CacheClose ==
    /\ c_pc = "idle"
    /\ IF c_closed
       THEN /\ c_last' = Ended("close", "", None, None, Stored, "no-op")
            /\ UNCHANGED <<c_closed, recycle_task, c_pc, c_tasks, files,
                           last_access>>
       ELSE /\ c_closed' = TRUE
            /\ IF recycle_task # "none"
               THEN /\ recycle_task' = "cancelled"
                    /\ c_pc' = "cancel"
                    /\ c_last' = NoCall
                    /\ UNCHANGED <<c_tasks, files, last_access>>
               ELSE /\ CloseLocked
                    /\ UNCHANGED recycle_task
    /\ ret' = NoReturn
    /\ expected' = IF c_closed THEN expected ELSE [k \in Keys |-> None]
    /\ UNCHANGED <<wake, now, ops, touched, http>>
    /\ UNCHANGED given
    /\ UNCHANGED <<jvars, svars, xvars>>

\* close() resumes once the cancelled recycle task has ended.
CloseAcquire ==
    /\ c_pc = "cancel"
    /\ CloseLocked
    /\ ret' = NoReturn
    /\ expected' = [k \in Keys |-> None]
    /\ UNCHANGED <<recycle_task, wake, c_closed, now, ops, touched, http>>
    /\ UNCHANGED given
    /\ UNCHANGED <<jvars, svars, xvars>>

\* close(), lines 60-64: gather() ends when every task is done, or as
\* soon as one has raised; then the exception leaves close() and the maps
\* are not cleared.
CloseGather ==
    /\ c_pc = "gather"
    /\ LET raised == \E i \in DOMAIN c_tasks :
                        c_tasks[i].state = "done" /\ c_tasks[i].raised
           alldone == \A i \in DOMAIN c_tasks : c_tasks[i].state = "done"
       IN  /\ raised \/ alldone
           /\ c_last' = Ended("close", "", None, None, Stored,
                              IF raised THEN "raised" ELSE "returned")
           /\ IF raised
              THEN UNCHANGED <<files, last_access>>
              ELSE /\ files' = EmptyDict
                   /\ last_access' = EmptyDict
    /\ c_pc' = "idle"
    /\ ret' = NoReturn
    /\ expected' = [k \in Keys |-> None]
    /\ UNCHANGED <<recycle_task, wake, c_closed, c_tasks, now, ops,
                   touched, http>>
    /\ UNCHANGED given
    /\ UNCHANGED <<jvars, svars, xvars>>

\* delete_file, line 210: a delete task starts and sends its DELETE. The
\* event loop starts tasks in the order of their creation.
DeleteStart ==
    /\ \E i \in DOMAIN c_tasks :
         /\ c_tasks[i].state = "created"
         /\ \A j \in 1..(i - 1) : c_tasks[j].state # "created"
         /\ c_tasks' = [c_tasks EXCEPT ![i].state = "running"]
         /\ http' = Append(http, DeleteCall(c_tasks[i].fileId))
    /\ ret' = NoReturn
    /\ c_last' = NoCall
    /\ UNCHANGED <<files, last_access, recycle_task, wake, c_closed, c_pc,
                   now, ops, touched, expected>>
    /\ UNCHANGED given
    /\ UNCHANGED <<jvars, svars, xvars>>

\* delete_file, lines 210-219: the answer arrives (True or False is
\* returned), or the transport raises.
DeleteDone ==
    /\ \E i \in DOMAIN c_tasks, raised \in BOOLEAN :
         /\ c_tasks[i].state = "running"
         /\ c_tasks' = [c_tasks EXCEPT ![i].state = "done",
                                       ![i].raised = raised]
    /\ ret' = NoReturn
    /\ c_last' = NoCall
    /\ UNCHANGED <<files, last_access, recycle_task, wake, c_closed, c_pc,
                   now, ops, touched, expected, http>>
    /\ UNCHANGED given
    /\ UNCHANGED <<jvars, svars, xvars>>

\* The clock advances when no task is ready to run: a created task, a
\* sleep that has ended and a resumed close() all run first.
Tick ==
    /\ now < MaxTime
    /\ recycle_task # "created"
    /\ ~(recycle_task = "sleeping" /\ wake <= now)
    /\ c_pc # "cancel"
    /\ \A i \in DOMAIN c_tasks : c_tasks[i].state # "created"
    /\ now' = now + 1
    /\ ret' = NoReturn
    /\ c_last' = NoCall
    /\ UNCHANGED <<files, last_access, recycle_task, wake, c_closed, c_tasks,
                   c_pc, ops, touched, expected, http>>
    /\ UNCHANGED given
    /\ UNCHANGED <<jvars, svars, xvars>>

\* FileCache.__init__, lines 21-29.
CacheInit ==
    /\ files = EmptyDict
    /\ last_access = EmptyDict
    /\ recycle_task = "none"
    /\ wake = 0
    /\ c_closed = FALSE
    /\ c_tasks = <<>>
    /\ c_pc = "idle"
    /\ now = 0
    /\ ops = 0
    /\ ret = NoReturn
    /\ touched = [k \in Keys |-> 0]
    /\ expected = [k \in Keys |-> None]
    /\ c_last = NoCall
    /\ given = [f \in CacheFiles |-> 0]

NextCache ==
    \/ CacheGet
    \/ CacheSet
    \/ CacheClose
    \/ CloseAcquire
    \/ CloseGather
    \/ Recycle
    \/ DeleteStart
    \/ DeleteDone
    \/ Tick

\* ==================================================================
\* scheduler.py: Scheduler and Processor
\* ==================================================================

\* The processor tasks that start() creates, range(self.init_concurrent).
Workers == {1, 2}

\* A payload on the task queue: valid when json.loads and Submission(**..)
\* accept it. sids are unique.
Payload(sid, valid) == [sid |-> sid, valid |-> valid]

\* Judger.__init__'s parameters after self, and the arguments that
\* process() passes to it at line 99.
JudgerParams == <<"client", "submission">>

JudgerArgs == <<"self.client", "submission", "self.checker">>

\* Judger(...) raises TypeError when the arguments do not fit.
JudgerConstructs == Len(JudgerArgs) = Len(JudgerParams)

ProgressRecord(sid) == SubmissionResult(sid, "RunningJudge")

FallbackRecord_Running(sid) == SubmissionResult(sid, "RunningJudge")

FallbackRecord_Accepted(sid) == SubmissionResult(sid, "Accepted")

FallbackRecord(sid) == SubmissionResult(sid, "SystemError")

WorkerAt(p, sid, error) == [pc |-> p, sid |-> sid, error |-> error]

\* Scheduler.start
Start ==
    /\ \A w \in Workers : worker[w].pc = "none"
    /\ running' = TRUE
    /\ worker' = [w \in Workers |-> WorkerAt("loop", None, FALSE)]
    /\ UNCHANGED <<task_queue, result_queue, produced, push_raised, finished>>
    /\ UNCHANGED <<jvars, http, cvars, stop_call, xvars>>

\* The sids of the submissions that a worker is processing.
Held == {worker[w].sid : w \in {v \in Workers : worker[v].sid # None}}

Stop_Cancel ==
    /\ running
    /\ running' = FALSE
    /\ stop_call' = [pc |-> "waiting", held |-> Held]
    /\ worker' = [w \in Workers |->
                     IF worker[w].sid # None
                     THEN [pc |-> "closing", sid |-> None, error |-> FALSE]
                     ELSE worker[w]]
    /\ finished' = finished \cup Held
    /\ UNCHANGED <<task_queue, result_queue, produced, push_raised>>
    /\ UNCHANGED <<jvars, http, cvars, xvars>>

\* Scheduler.stop, lines 173-176: running is cleared and stop() awaits
\* wait(), the gather of the processor tasks.
Stop ==
    /\ running
    /\ running' = FALSE
    /\ stop_call' = [pc |-> "waiting", held |-> Held]
    /\ UNCHANGED <<task_queue, result_queue, worker, produced, push_raised,
                   finished>>
    /\ UNCHANGED <<jvars, http, cvars, xvars>>

\* Scheduler.wait, line 171, awaited by stop(): gather() raises as soon as
\* a processor task has ended with an exception and returns when all have
\* ended without one.
StopReturn ==
    /\ stop_call.pc = "waiting"
    /\ LET failed == \E w \in Workers :
                        worker[w].pc = "done" /\ worker[w].error
           ended == \A w \in Workers : worker[w].pc = "done"
       IN  /\ failed \/ ended
           /\ stop_call' = [stop_call EXCEPT
                               !.pc = IF failed THEN "raised" ELSE "returned"]
    /\ UNCHANGED <<running, task_queue, result_queue, worker, produced,
                   push_raised, finished>>
    /\ UNCHANGED <<jvars, http, cvars, xvars>>

\* A producer pushes a payload on judger:task.
Produce ==
    /\ produced < MaxSubs
    /\ \E valid \in BOOLEAN :
         task_queue' = Append(task_queue, Payload(produced + 1, valid))
    /\ produced' = produced + 1
    /\ UNCHANGED <<running, result_queue, worker, push_raised, finished>>
    /\ UNCHANGED <<jvars, http, cvars, stop_call, xvars>>

\* A worker loop that does not look at the running flag.
WorkerLoop_NoTest(w) ==
    /\ worker[w].pc = "loop"
    /\ worker' = [worker EXCEPT ![w] = WorkerAt("blpop", None, FALSE)]
    /\ UNCHANGED <<running, task_queue, result_queue, produced, push_raised,
                   finished>>
    /\ UNCHANGED <<jvars, http, cvars, stop_call, xvars>>

\* Scheduler.processor line 157 and get_submission line 56, which run
\* without an await between them: leave the loop, or block in blpop.
WorkerLoop(w) ==
    /\ worker[w].pc = "loop"
    /\ worker' = [worker EXCEPT ![w] =
                     WorkerAt(IF running THEN "blpop" ELSE "closing",
                              None, FALSE)]
    /\ UNCHANGED <<running, task_queue, result_queue, produced, push_raised,
                   finished>>
    /\ UNCHANGED <<jvars, http, cvars, stop_call, xvars>>

\* A pop that reads the head of the list and leaves it there.
Blpop_Peek(w) ==
    /\ worker[w].pc = "blpop"
    /\ task_queue # <<>>
    /\ Head(task_queue).valid
    /\ worker' = [worker EXCEPT ![w] =
                     WorkerAt("progress", Head(task_queue).sid, FALSE)]
    /\ UNCHANGED <<running, task_queue, result_queue, produced, push_raised,
                   finished>>
    /\ UNCHANGED <<jvars, http, cvars, stop_call, xvars>>

\* get_submission lines 57-69: blpop times out on an empty queue (and the
\* loop of line 56 blocks again or returns None), pops the head, or
\* raises; a popped payload parses into a Submission or raises.
Blpop(w) ==
    /\ worker[w].pc = "blpop"
    /\ \E raised \in BOOLEAN :
         IF raised
         THEN /\ worker' = [worker EXCEPT ![w] = WorkerAt("closing", None, TRUE)]
              /\ UNCHANGED task_queue
         ELSE IF task_queue = <<>>
         THEN /\ worker' = [worker EXCEPT ![w] =
                    WorkerAt(IF running THEN "blpop" ELSE "closing",
                             None, FALSE)]
              /\ UNCHANGED task_queue
         ELSE /\ task_queue' = Tail(task_queue)
              /\ worker' = [worker EXCEPT ![w] =
                    IF Head(task_queue).valid
                    THEN WorkerAt("progress", Head(task_queue).sid, FALSE)
                    ELSE WorkerAt("closing", None, TRUE)]
    /\ UNCHANGED <<running, result_queue, produced, push_raised, finished>>
    /\ UNCHANGED <<jvars, http, cvars, stop_call, xvars>>

\* process lines 91-99 and 111-115: the progress push ends. When it
\* raises, the exception leaves process() and the worker's loop. When it
\* succeeds, Judger(...) is constructed; a TypeError there is caught at
\* line 111 and the fallback push begins.
PushProgress(w) ==
    /\ worker[w].pc = "progress"
    /\ LET sid == worker[w].sid
       IN  \E raised \in BOOLEAN :
             IF raised
             THEN /\ worker' = [worker EXCEPT ![w] =
                                   WorkerAt("closing", None, TRUE)]
                  /\ push_raised' = push_raised \cup {sid}
                  /\ finished' = finished \cup {sid}
                  /\ UNCHANGED result_queue
             ELSE /\ result_queue' = Append(result_queue, ProgressRecord(sid))
                  /\ worker' = [worker EXCEPT ![w] =
                        WorkerAt(IF JudgerConstructs THEN "get_result"
                                 ELSE "fallback", sid, FALSE)]
                  /\ UNCHANGED <<push_raised, finished>>
    /\ UNCHANGED <<running, task_queue, produced>>
    /\ UNCHANGED <<jvars, http, cvars, stop_call, xvars>>

\* process lines 116-121: the fallback push ends; no handler is around it.
PushFallback(w) ==
    /\ worker[w].pc = "fallback"
    /\ LET sid == worker[w].sid
       IN  /\ \E raised \in BOOLEAN :
                IF raised
                THEN /\ worker' = [worker EXCEPT ![w] =
                                      WorkerAt("closing", None, TRUE)]
                     /\ push_raised' = push_raised \cup {sid}
                     /\ UNCHANGED result_queue
                ELSE /\ result_queue' =
                            Append(result_queue, FallbackRecord(sid))
                     /\ worker' = [worker EXCEPT ![w] =
                                      WorkerAt("loop", None, FALSE)]
                     /\ UNCHANGED push_raised
           /\ finished' = finished \cup {sid}
    /\ UNCHANGED <<running, task_queue, produced>>
    /\ UNCHANGED <<jvars, http, cvars, stop_call, xvars>>

\* Processor.__aexit__ and close, lines 46-53; then the task ends, with
\* the exception that left the loop if there was one.
WorkerClose(w) ==
    /\ worker[w].pc = "closing"
    /\ worker' = [worker EXCEPT ![w].pc = "done"]
    /\ UNCHANGED <<running, task_queue, result_queue, produced, push_raised,
                   finished>>
    /\ UNCHANGED <<jvars, http, cvars, stop_call, xvars>>

\* Scheduler.__init__, lines 132-136, with both Redis lists empty.
SchedInit ==
    /\ running = FALSE
    /\ task_queue = <<>>
    /\ result_queue = <<>>
    /\ worker = [w \in Workers |-> WorkerAt("none", None, FALSE)]
    /\ produced = 0
    /\ push_raised = {}
    /\ finished = {}
    /\ stop_call = [pc |-> "none", held |-> {}]

NextSched ==
    \/ Start
    \/ Stop
    \/ StopReturn
    \/ Produce
    \/ \E w \in Workers : WorkerLoop(w)
    \/ \E w \in Workers : Blpop(w)
    \/ \E w \in Workers : PushProgress(w)
    \/ \E w \in Workers : PushFallback(w)
    \/ \E w \in Workers : WorkerClose(w)

\* ==================================================================
\* checker.py: a checker used on its own
\* ==================================================================

CheckerClasses == {"TestlibChecker", "DefaultChecker"}

\* A checker that compiles on every call.
IsCompiled_Never(cf) == FALSE

\* compile(), checker.py:56 and 173: `if self.compiled_file is not None`.
IsCompiled(cf) == cf # None

\* compile() of a checker of class `class` whose compiled_file is cf, with
\* the answer r of its /run (TestlibChecker 55-95, DefaultChecker 172-202):
\* whether the /run is made, how the call ends, the error it raises and
\* the stderr that error carries, and the compiled_file it leaves.
Checker_compile(class, cf, r, testlibExists, id) ==
    IF IsCompiled(cf)
    THEN [called |-> FALSE, end |-> "returned", error |-> "", stderr |-> "",
          file |-> cf]
    ELSE IF class = "TestlibChecker" /\ ~testlibExists
    THEN [called |-> FALSE, end |-> "raised", error |-> "FileNotFoundError",
          stderr |-> "", file |-> cf]
    ELSE IF r.raised
    THEN [called |-> TRUE, end |-> "raised", error |-> "ClientError",
          stderr |-> "", file |-> cf]
    ELSE IF r.status # "Accepted"
    THEN IF r.files = "None"
         THEN [called |-> TRUE, end |-> "raised", error |-> "AttributeError",
               stderr |-> "", file |-> cf]
         ELSE [called |-> TRUE, end |-> "raised", error |-> "RuntimeError",
               stderr |-> IF r.files = "{}" THEN "" ELSE r.files,
               file |-> cf]
    ELSE IF ~r.hasFile
    THEN [called |-> TRUE, end |-> "raised", error |-> "TypeError",
          stderr |-> "", file |-> cf]
    ELSE [called |-> TRUE, end |-> "returned", error |-> "", stderr |-> "",
          file |-> id]

\* The calls compile() makes on the client.
Checker_compile_calls(out, id) ==
    IF out.called
    THEN <<RunCall("checker_compile", 0, {},
                   IF out.end = "returned" THEN {id} ELSE {})>>
    ELSE <<>>

\* A check that sends its /run a second time.
Checker_check_calls_Twice(cf) ==
    <<RunCall("check", 0, {cf}, {}), RunCall("check", 0, {cf}, {})>>

\* check(), TestlibChecker 116-128 and DefaultChecker 217-233: its /run,
\* with the compiled binary in copyIn.
Checker_check_calls(cf) == <<RunCall("check", 0, {cf}, {})>>

\* The call on the checker that has just ended: `had` is compiled_file and
\* `sent` the length of the log when it began, `answer` what the sandbox
\* answered to the compile it made.
KEnded(op, end, error, stderr, ans) ==
    [op |-> op, had |-> k_file, sent |-> Len(k_log), end |-> end,
     error |-> error, stderr |-> stderr, answer |-> ans]

\* What compile() read of the answer r to its /run.
CompileAnswer(out, r) ==
    IF out.called /\ ~r.raised
    THEN [status |-> r.status, stderr |-> IF r.files \in {"None", "{}"}
                                          THEN "" ELSE r.files]
    ELSE [status |-> "none", stderr |-> ""]

\* compile()
KCompile ==
    /\ k_ops < MaxOps
    /\ \E r \in CompileResults, testlibExists \in BOOLEAN :
         LET out == Checker_compile(k_class, k_file, r, testlibExists, k_next)
         IN  /\ k_file' = out.file
             /\ k_log' = k_log \o Checker_compile_calls(out, k_next)
             /\ k_next' = IF out.file # k_file THEN k_next + 1 ELSE k_next
             /\ k_last' = KEnded("compile", out.end, out.error, out.stderr,
                                 CompileAnswer(out, r))
    /\ k_ops' = k_ops + 1
    /\ UNCHANGED k_class
    /\ UNCHANGED <<jvars, http, cvars, svars, hvars, lvars>>

\* check(): `if self.compiled_file is None: await self.compile()`, then the
\* /run and the verdict; an exception of compile() leaves check().
KCheck ==
    /\ k_ops < MaxOps
    /\ \E rc \in CompileResults, testlibExists \in BOOLEAN, r \in CheckResults :
         LET out == IF k_file = None
                    THEN Checker_compile(k_class, k_file, rc, testlibExists,
                                         k_next)
                    ELSE [called |-> FALSE, end |-> "returned", error |-> "",
                          stderr |-> "", file |-> k_file]
             judge == IF k_class = "DefaultChecker"
                      THEN DefaultChecker_check(r)
                      ELSE TestlibChecker_check(r)
         IN  /\ k_file' = out.file
             /\ k_next' = IF out.file # k_file THEN k_next + 1 ELSE k_next
             /\ IF out.end = "raised"
                THEN /\ k_log' = k_log \o Checker_compile_calls(out, k_next)
                     /\ k_last' = KEnded("check", "raised", out.error,
                                         out.stderr, CompileAnswer(out, rc))
                ELSE /\ k_log' = k_log \o Checker_compile_calls(out, k_next)
                                       \o Checker_check_calls(out.file)
                     /\ k_last' = KEnded("check",
                                     IF judge = "raise" THEN "raised"
                                     ELSE "returned",
                                     IF judge = "raise" THEN "RuntimeError"
                                     ELSE judge,
                                     "", CompileAnswer(out, rc))
    /\ k_ops' = k_ops + 1
    /\ UNCHANGED k_class
    /\ UNCHANGED <<jvars, http, cvars, svars, hvars, lvars>>

\* close(), checker.py:50-53: the compiled binary, when there is one, is
\* deleted; delete_file answers True or False, or the transport raises.
\* compiled_file is left as it is.
KClose ==
    /\ k_ops < MaxOps
    /\ \E deleted \in {"True", "False", "raise"} :
         IF k_file # None
         THEN /\ k_log' = Append(k_log, DeleteCall(k_file))
              /\ k_last' = KEnded("close",
                                  IF deleted = "raise" THEN "raised"
                                  ELSE "returned",
                                  IF deleted = "raise" THEN "ClientError"
                                  ELSE "", "",
                                  [status |-> "none", stderr |-> ""])
         ELSE /\ deleted = "True"
              /\ k_log' = k_log
              /\ k_last' = KEnded("close", "returned", "", "",
                                  [status |-> "none", stderr |-> ""])
    /\ k_ops' = k_ops + 1
    /\ UNCHANGED <<k_class, k_file, k_next>>
    /\ UNCHANGED <<jvars, http, cvars, svars, hvars, lvars>>

\* TestlibChecker.__init__ (34-42), DefaultChecker.__init__ (150-170).
CheckerInit(classes) ==
    /\ k_class \in classes
    /\ k_file = None
    /\ k_log = <<>>
    /\ k_next = 1
    /\ k_ops = 0
    /\ k_last = [op |-> "none", had |-> None, sent |-> 0, end |-> "",
                 error |-> "", stderr |-> "",
                 answer |-> [status |-> "none", stderr |-> ""]]

NextChecker == KCompile \/ KCheck \/ KClose

\* ==================================================================
\* client.py: SandboxClient and the sandbox's file store
\* ==================================================================

\* The sandbox's answer to GET or DELETE /file/{id}: 200 for a file it
\* holds and 404 for one it does not, as tests/test_client.py observes it,
\* or a failure of its own.
FileStatuses(id) == {IF id \in store THEN 200 ELSE 404, 500}

\* How a client call ends: the value returned, or the exception raised.
Returns(value) == [end |-> "returned", value |-> value, error |-> ""]

Raises(error) == [end |-> "raised", value |-> "", error |-> error]

\* session.post / get / delete raising before an answer arrives.
TransportFailure == Raises("ClientConnectionError")

\* A raise_for_status that lets every status pass.
RaiseForStatus_Never(status, value) == Returns(value)

\* resp.raise_for_status() of aiohttp: ClientResponseError from 400 on.
RaiseForStatus(status, value) ==
    IF status >= 400 THEN Raises("ClientResponseError") ELSE Returns(value)

\* run_command (154-169) and upload_file (171-185).
Client_run_command(status) == RaiseForStatus(status, "results")

Client_upload_file(status) == RaiseForStatus(status, "PreparedFile")

\* download_file (187-204): the text for 200, None otherwise.
Client_download_file(status) ==
    IF status = 200 THEN Returns("text") ELSE Returns("None")

\* A delete_file that raises on a refusal.
Client_delete_file_Raising(status) == RaiseForStatus(status, "True")

\* delete_file (206-219): True for 200, False otherwise.
Client_delete_file(status) ==
    IF status = 200 THEN Returns("True") ELSE Returns("False")

\* get_version (221-228): the status is not looked at; resp.json() gives
\* the body when it is JSON and raises ContentTypeError when it is not.
Client_get_version(status, isJson) ==
    IF isJson THEN Returns("body") ELSE Raises("ContentTypeError")

\* The client call that has just ended: on which file id, whether the
\* sandbox held it, whether an answer arrived and with which HTTP status
\* (0 without an answer), and how the call ended.
HEnded(op, id, status, out) ==
    [op |-> op, id |-> id, known |-> id \in store,
     answered |-> status # 0, status |-> status,
     end |-> out.end, value |-> out.value, error |-> out.error]

\* The transport of any call may fail.
HFail ==
    /\ h_ops < MaxOps
    /\ \E op \in {"run_command", "upload_file", "download_file",
                  "delete_file", "get_version"}, id \in 0..(h_next - 1) :
         /\ op \in {"run_command", "upload_file", "get_version"} => id = 0
         /\ h_last' = HEnded(op, id, 0, TransportFailure)
    /\ h_ops' = h_ops + 1
    /\ UNCHANGED <<store, h_next>>
    /\ UNCHANGED <<jvars, http, cvars, svars, kvars, lvars>>

HRunCommand ==
    /\ h_ops < MaxOps
    /\ \E status \in {200, 500} :
         h_last' = HEnded("run_command", 0, status, Client_run_command(status))
    /\ h_ops' = h_ops + 1
    /\ UNCHANGED <<store, h_next>>
    /\ UNCHANGED <<jvars, http, cvars, svars, kvars, lvars>>

\* A file the sandbox accepts gets the next id.
HUploadFile ==
    /\ h_ops < MaxOps
    /\ \E status \in {200, 500} :
         /\ h_last' = HEnded("upload_file", IF status = 200 THEN h_next ELSE 0,
                             status, Client_upload_file(status))
         /\ store' = IF status = 200 THEN store \cup {h_next} ELSE store
         /\ h_next' = IF status = 200 THEN h_next + 1 ELSE h_next
    /\ h_ops' = h_ops + 1
    /\ UNCHANGED <<jvars, http, cvars, svars, kvars, lvars>>

\* Id 0 stands for an id the sandbox never handed out ("nonexistent").
HDownloadFile ==
    /\ h_ops < MaxOps
    /\ \E id \in 0..(h_next - 1) :
         \E status \in FileStatuses(id) :
            h_last' = HEnded("download_file", id, status,
                             Client_download_file(status))
    /\ h_ops' = h_ops + 1
    /\ UNCHANGED <<store, h_next>>
    /\ UNCHANGED <<jvars, http, cvars, svars, kvars, lvars>>

\* A delete the sandbox answers with 200 removes the file.
HDeleteFile ==
    /\ h_ops < MaxOps
    /\ \E id \in 0..(h_next - 1) :
         \E status \in FileStatuses(id) :
            /\ h_last' = HEnded("delete_file", id, status,
                                Client_delete_file(status))
            /\ store' = IF status = 200 THEN store \ {id} ELSE store
    /\ h_ops' = h_ops + 1
    /\ UNCHANGED h_next
    /\ UNCHANGED <<jvars, http, cvars, svars, kvars, lvars>>

HGetVersion ==
    /\ h_ops < MaxOps
    /\ \E status \in {200, 500}, isJson \in BOOLEAN :
         h_last' = HEnded("get_version", 0, status,
                          Client_get_version(status, isJson))
    /\ h_ops' = h_ops + 1
    /\ UNCHANGED <<store, h_next>>
    /\ UNCHANGED <<jvars, http, cvars, svars, kvars, lvars>>

\* SandboxClient.__init__ (133-137), with an empty file store.
ClientInit ==
    /\ store = {}
    /\ h_next = 1
    /\ h_ops = 0
    /\ h_last = [op |-> "none", id |-> 0, known |-> FALSE,
                 answered |-> FALSE, status |-> 0,
                 end |-> "", value |-> "", error |-> ""]

NextClient ==
    \/ HFail
    \/ HRunCommand
    \/ HUploadFile
    \/ HDownloadFile
    \/ HDeleteFile
    \/ HGetVersion

\* ==================================================================
\* language.py: LanguageRegistry
\* ==================================================================

\* The keys register and get_config are called with: the members of
\* Language and, as in tests/test_language.py, values that are none.
Tags == Language \cup {"-1", "-2"}

\* The entries a caller registers.
Configs ==
    {LanguageConfig(TRUE, 1, 1), LanguageConfig(TRUE, 2, 2),
     LanguageConfig(FALSE, 1, 1)}

\* A register that replaces the entry of a registered language.
LanguageRegistry_register_Overwrite(mapping, lang, config) ==
    [end |-> "returned", error |-> "",
     mapping |-> DictPut(mapping, lang, config)]

\* LanguageRegistry.register (21-25): how the call ends and the mapping
\* it leaves.
LanguageRegistry_register(mapping, lang, config) ==
    IF lang \in DOMAIN mapping
    THEN [end |-> "raised", error |-> "ValueError", mapping |-> mapping]
    ELSE [end |-> "returned", error |-> "",
          mapping |-> DictPut(mapping, lang, config)]

\* LanguageRegistry.get_config (27-31) on a mapping.
LanguageRegistry_lookup(mapping, lang) ==
    IF lang \notin DOMAIN mapping
    THEN [end |-> "raised", error |-> "ValueError", value |-> None]
    ELSE [end |-> "returned", error |-> "", value |-> mapping[lang]]

\* The registry call that has just ended: its arguments, the mapping it
\* found, how it ended and what it returned.
LEnded(op, lang, config, end, error, value) ==
    [op |-> op, lang |-> lang, config |-> config, had |-> l_mapping,
     end |-> end, error |-> error, value |-> value]

LRegister ==
    /\ l_ops < MaxOps
    /\ \E lang \in Tags, config \in Configs :
         LET out == LanguageRegistry_register(l_mapping, lang, config) IN
         /\ l_mapping' = out.mapping
         /\ l_entered' = IF out.end = "returned"
                         THEN l_entered \cup {<<lang, config>>}
                         ELSE l_entered
         /\ l_last' = LEnded("register", lang, config, out.end, out.error,
                             None)
    /\ l_ops' = l_ops + 1
    /\ UNCHANGED <<jvars, http, cvars, svars, kvars, hvars>>

LGetConfig ==
    /\ l_ops < MaxOps
    /\ \E lang \in Tags :
         LET out == LanguageRegistry_lookup(l_mapping, lang) IN
         l_last' = LEnded("get_config", lang, None, out.end, out.error,
                          out.value)
    /\ l_ops' = l_ops + 1
    /\ UNCHANGED <<l_mapping, l_entered>>
    /\ UNCHANGED <<jvars, http, cvars, svars, kvars, hvars>>

\* The registry when the module is imported: the registrations of the
\* members of Language (33-121).
RegistryInit ==
    /\ l_mapping = [lang \in Language |-> LanguageRegistry_get_config(lang)]
    /\ l_entered = {<<lang, LanguageRegistry_get_config(lang)>> :
                      lang \in Language}
    /\ l_ops = 0
    /\ l_last = [op |-> "none", lang |-> "", config |-> None,
                 had |-> EmptyDict, end |-> "", error |-> "",
                 value |-> None]

NextRegistry == LRegister \/ LGetConfig

\* ==================================================================
\* The machines, each with the others at rest
\* ==================================================================

\* The components at rest next to the machine a specification runs; the
\* checker of a Processor is a DefaultChecker (scheduler.py:39).
OtherInit == CheckerInit({"DefaultChecker"}) /\ ClientInit /\ RegistryInit

Init == JudgerInit(Submissions) /\ CacheInit /\ SchedInit /\ OtherInit

Spec == Init /\ [][Next]_vars

InitCache ==
    /\ JudgerInit({CHOOSE s \in Submissions : TRUE})
    /\ CacheInit /\ SchedInit /\ OtherInit

SpecCache == InitCache /\ [][NextCache]_vars

InitSched ==
    /\ JudgerInit({CHOOSE s \in Submissions : TRUE})
    /\ CacheInit /\ SchedInit /\ OtherInit

SpecSched == InitSched /\ [][NextSched]_vars

InitChecker ==
    /\ JudgerInit({CHOOSE s \in Submissions : TRUE})
    /\ CacheInit /\ SchedInit /\ CheckerInit(CheckerClasses) /\ ClientInit
    /\ RegistryInit

SpecChecker == InitChecker /\ [][NextChecker]_vars

SpecClient == InitSched /\ [][NextClient]_vars

SpecRegistry == InitSched /\ [][NextRegistry]_vars

\* A Judger as the tests drive it, with the scheduler not started, or the
\* scheduler with its workers, none of which reaches a pipeline
\* (JudgerConstructs): either machine runs from the other's initial state.
NextWorker ==
    \/ SchedInit /\ Next
    \/ JudgerInit({CHOOSE s \in Submissions : TRUE}) /\ NextSched

SpecWorker == Init /\ [][NextWorker]_vars

\* Scheduler.processor: the step of worker w, whichever it is.
WorkerStep(w) ==
    \/ WorkerLoop(w)
    \/ Blpop(w)
    \/ PushProgress(w)
    \/ PushFallback(w)
    \/ WorkerClose(w)

\* The event loop runs every task that can run: a blpop returns within
\* its timeout, a push ends, a close ends, and gather() is resumed.
FairSched ==
    /\ \A w \in Workers : WF_vars(WorkerStep(w))
    /\ WF_vars(StopReturn)

SpecSchedFair == InitSched /\ [][NextSched]_vars /\ FairSched

\* ==================================================================
\* Properties of the judging pipeline (Spec)
\* ==================================================================

\* get_result() has returned at least once and no call is in progress.
Returned == calls >= 1 /\ pc = "idle"

Unfinished == {"Pending", "RunningJudge"}

\* C1: the SubmissionResult returned by get_result() never has judge
\* Pending or RunningJudge, and neither has any TestcaseResult in it,
\* whatever the sandbox answered and wherever a call failed.
C1_TerminalVerdict ==
    Returned =>
        /\ result.judge \notin Unfinished
        /\ \A i \in DOMAIN result.testcases :
              result.testcases[i].judge \notin Unfinished

\* C1 witness: a returned result in which a testcase ended in SystemError,
\* the verdict stored when a sandbox call of that testcase failed.
C1_Witness ==
    /\ Returned
    /\ \E i \in DOMAIN result.testcases :
         result.testcases[i].judge = "SystemError"

\* C2 as stated: for every submission with at least one testcase the
\* returned result has one entry per testcase, in order, with its uuid.
C2_AlignedAlways ==
    (Returned /\ Len(submission.testcases) >= 1) =>
        /\ Len(result.testcases) = Len(submission.testcases)
        /\ \A i \in DOMAIN result.testcases :
              result.testcases[i].uuid = submission.testcases[i]

\* C2 amended: when the user compile and the checker compile succeeded the
\* returned vector is aligned with the submission's testcases (same
\* length, same uuid at each position); when either failed it is empty.
C2_AlignedWhenLoopReached ==
    (Returned /\ Len(submission.testcases) >= 1) =>
        IF compiled_file # None /\ checker_file # None
        THEN /\ Len(result.testcases) = Len(submission.testcases)
             /\ \A i \in DOMAIN result.testcases :
                   result.testcases[i].uuid = submission.testcases[i]
        ELSE result.testcases = <<>>

\* C2 witness: a returned vector of two entries with distinct uuids.
C2_Witness ==
    /\ Returned
    /\ Len(result.testcases) >= 2
    /\ result.testcases[1].uuid # result.testcases[2].uuid

\* C3: the returned time and memory are the maxima over the testcase
\* results (Skipped entries count as 0), and both are 0 when no testcase
\* result was produced.
C3_MaxResources ==
    Returned =>
        LET t == result.testcases IN
        IF t = <<>>
        THEN result.time = 0 /\ result.memory = 0
        ELSE /\ \A i \in DOMAIN t : t[i].time <= result.time
             /\ \E i \in DOMAIN t : t[i].time = result.time
             /\ \A i \in DOMAIN t : t[i].memory <= result.memory
             /\ \E i \in DOMAIN t : t[i].memory = result.memory
             /\ \A i \in DOMAIN t :
                   t[i].judge = "Skipped" => t[i].time = 0 /\ t[i].memory = 0

\* C3 witness: the maximum of time and the maximum of memory come from
\* different testcases.
C3_Witness ==
    /\ Returned
    /\ \E i, j \in DOMAIN result.testcases :
         /\ result.testcases[i].time < result.testcases[j].time
         /\ result.testcases[j].memory < result.testcases[i].memory
         /\ result.time = result.testcases[j].time
         /\ result.memory = result.testcases[i].memory

\* C4: once get_result() has returned, a further call changes nothing: the
\* stored result is the same, no /run and no DELETE is issued, no task is
\* created and no pipeline step is entered.
C4_Idempotent ==
    [][calls >= 1 =>
          /\ result' = result
          /\ http' = http
          /\ cleanup_tasks' = cleanup_tasks
          /\ pc' = "idle"]_vars

\* C4 witness: a second call has returned on a Judger that ran testcases.
C4_Witness ==
    /\ calls >= 2
    /\ pc = "idle"
    /\ result.testcases # <<>>

\* The priority order as the claim C5 lists it.
C5_Order ==
    <<"SystemError", "OutputLimitExceeded", "MemoryLimitExceeded",
      "TimeLimitExceeded", "RuntimeError", "WrongAnswer", "PresentationError">>

\* C5: when testcase results were produced, the overall judge is Accepted
\* if every testcase is Accepted, and otherwise the first verdict of the
\* priority list that occurs among the testcase verdicts.
C5_Priority ==
    (Returned /\ result.testcases # <<>>) =>
        LET judges == {result.testcases[i].judge : i \in DOMAIN result.testcases}
        IN  IF judges = {"Accepted"}
            THEN result.judge = "Accepted"
            ELSE \E k \in DOMAIN C5_Order :
                    /\ C5_Order[k] = result.judge
                    /\ result.judge \in judges
                    /\ \A j \in 1..(k - 1) : C5_Order[j] \notin judges

\* C5 witness: RuntimeError and WrongAnswer both occur, and no verdict
\* of higher priority does.
C5_Witness ==
    /\ Returned
    /\ {result.testcases[i].judge : i \in DOMAIN result.testcases}
          = {"RuntimeError", "WrongAnswer"}

\* C6: after a testcase with verdict TimeLimitExceeded, MemoryLimitExceeded
\* or OutputLimitExceeded every later testcase is recorded as Skipped with
\* time 0 and memory 0 at its own position and uuid, and the sandbox was
\* never asked to run it.
C6_Skipping ==
    \A i, j \in DOMAIN result.testcases :
        (i < j /\ result.testcases[i].judge \in
                    {"TimeLimitExceeded", "MemoryLimitExceeded",
                     "OutputLimitExceeded"}) =>
            /\ result.testcases[j] =
                  [uuid |-> submission.testcases[j], time |-> 0,
                   memory |-> 0, judge |-> "Skipped"]
            /\ \A n \in DOMAIN http :
                  ~(http[n].op = "run" /\ http[n].tc = j)

\* C6 witness: a returned result with a TimeLimitExceeded testcase that is
\* followed by another one.
C6_Witness ==
    /\ Returned
    /\ \E i, j \in DOMAIN result.testcases :
         i < j /\ result.testcases[i].judge = "TimeLimitExceeded"

\* The file ids for which delete_file has been called.
Deleted == {id \in 1..nextId : \E n \in DOMAIN http :
               http[n].op = "DELETE" /\ id \in http[n].ids}

\* The file ids that /run calls of the given kinds returned in fileIds.
Returned_ids(kinds) ==
    UNION {http[n].out : n \in {m \in DOMAIN http : http[m].kind \in kinds}}

\* C7: when get_result() returns, a DELETE has been issued for every
\* stdout file id a testcase /run returned.
C7_StdoutDeleted ==
    Returned => Returned_ids({"testcase"}) \subseteq Deleted

\* C8: when get_result() returns, a DELETE has been issued for every
\* PreparedFile the run created: the compiled user artifact and the binary
\* of the checker the Judger constructed (the result carries no file id).
C8_CreatedFilesDeleted ==
    Returned => Returned_ids({"compile", "checker_compile"}) \subseteq Deleted

\* The /run calls of the given kinds in the sandbox log.
RunsOf(kinds) == {n \in DOMAIN http : http[n].op = "run" /\ http[n].kind \in kinds}

TestcaseRuns == RunsOf({"testcase", "check", "interaction"})

\* C15: for a submission with an empty testcases list get_result() returns
\* judge SystemError with error "No testcases provided" and no testcase
\* results, and no testcase /run is issued.
C15_NoTestcases ==
    (Returned /\ Len(submission.testcases) = 0) =>
        /\ result.judge = "SystemError"
        /\ result.error = "No testcases provided"
        /\ result.testcases = <<>>
        /\ TestcaseRuns = {}

\* The stderr the answer of a compile carries in `files`, "" without one.
CapturedStderr == IF answer.files \in {"None", "{}"} THEN "" ELSE answer.files

\* C16: when the user compile is answered with a status other than Accepted
\* the pipeline ends with CompileError, the captured stderr as error, no
\* testcase results, and neither a checker compile nor a testcase /run; when
\* the compile call fails in transport it ends with SystemError.
C16_CompileError ==
    answer.kind = "compile" =>
        /\ (~answer.raised /\ answer.status # "Accepted") =>
              /\ result.judge = "CompileError"
              /\ result.error = CapturedStderr
              /\ result.testcases = <<>>
              /\ pc = "cleanup"
              /\ RunsOf({"checker_compile"}) \cup TestcaseRuns = {}
        /\ answer.raised =>
              /\ result.judge = "SystemError"
              /\ pc = "cleanup"

\* The latest answer made the testcase raise: the /run call failed, the
\* answer of a traditional run has no stdout fileId (judger.py:192), or the
\* checker raised on its own answer.
TestcaseRaised ==
    \/ answer.kind \in {"testcase", "check", "interaction"} /\ answer.raised
    \/ answer.kind = "testcase" /\ ~answer.hasFile
    \/ answer.kind = "check" /\ Checker_check(answer) = "raise"

LimitVerdicts ==
    {"TimeLimitExceeded", "MemoryLimitExceeded", "OutputLimitExceeded"}

\* C17: an exception raised while running a testcase (transport failure,
\* missing stdout fileId, checker raising) gives that testcase SystemError
\* with time 0 and memory 0 at its position; the loop goes on and skipping
\* is not engaged, so that every testcase with no limit verdict before it
\* has been sent to the sandbox.
C17_ExceptionIsSystemError ==
    /\ TestcaseRaised =>
          /\ Len(result.testcases) = answer.tc
          /\ result.testcases[answer.tc] =
                TestcaseResult(submission.testcases[answer.tc], 0, 0,
                               "SystemError")
          /\ ~skipped
          /\ pc = IF answer.tc = Len(submission.testcases)
                  THEN "aggregate" ELSE "loop"
    /\ \A j \in DOMAIN result.testcases :
          (\A i \in 1..(j - 1) : result.testcases[i].judge \notin LimitVerdicts)
             => /\ result.testcases[j].judge # "Skipped"
                /\ \E n \in RunsOf({"testcase", "interaction"}) : http[n].tc = j

\* C17 witness: the first testcase raised (SystemError with no time, which
\* a status never gives) and the second one was run all the same, its
\* answer lacking the stdout fileId.
C17_Witness ==
    /\ answer.kind = "testcase"
    /\ answer.tc = 2
    /\ ~answer.raised
    /\ ~answer.hasFile
    /\ Len(result.testcases) = 2
    /\ result.testcases[1].judge = "SystemError"
    /\ result.testcases[1].time = 0

\* The verdict the claims C18 and C19 give to a user status other than
\* Accepted.
VerdictOfStatus(status) ==
    IF status = "Memory Limit Exceeded" THEN "MemoryLimitExceeded"
    ELSE IF status = "Time Limit Exceeded" THEN "TimeLimitExceeded"
    ELSE IF status = "Output Limit Exceeded" THEN "OutputLimitExceeded"
    ELSE IF status \in {"Nonzero Exit Status", "Signalled"} THEN "RuntimeError"
    ELSE "SystemError"

\* The traditional verdict rule on the answers of the given set: after the
\* user program's /run the checker is awaited exactly when the status is
\* Accepted, another status gives its mapped verdict at once (RuntimeError
\* without engaging skipping); after the checker's /run the verdict is the
\* checker's.
TraditionalRule(answered) ==
    /\ (answer.kind = "testcase" /\ ~answer.raised /\ answered) =>
          /\ pc = "check" <=> answer.status = "Accepted"
          /\ answer.status # "Accepted" =>
                /\ Len(result.testcases) = answer.tc
                /\ result.testcases[answer.tc].judge =
                      VerdictOfStatus(answer.status)
                /\ result.testcases[answer.tc].judge = "RuntimeError"
                      => ~skipped
    /\ (answer.kind = "check" /\ Checker_check(answer) # "raise") =>
          /\ Len(result.testcases) = answer.tc
          /\ result.testcases[answer.tc].judge = Checker_check(answer)

\* C18 as stated: the traditional verdict rule for every answer of the
\* user program's /run.
C18_VerdictByStatus == TraditionalRule(TRUE)

\* C18 amended: the traditional verdict rule for every answer that carries
\* the stdout fileId: the checker is invoked if and only if the status is
\* Accepted and its verdict is the testcase verdict; MLE, TLE and OLE pass
\* through, NonzeroExitStatus and Signalled give RuntimeError without
\* skipping, any other status gives SystemError.
C18_VerdictByStatusWithStdout == TraditionalRule(answer.hasFile)

\* C18 witness: the first testcase ended in RuntimeError and the second
\* one was run and handed to the checker, which answered.
C18_Witness ==
    /\ answer.kind = "check"
    /\ answer.tc = 2
    /\ ~answer.raised
    /\ Len(result.testcases) = 2
    /\ result.testcases[1].judge = "RuntimeError"
    /\ result.testcases[2].judge = "WrongAnswer"

\* The pipes send the standard output (fd 1) of each of the two commands
\* to the standard input (fd 0) of the other.
Crossed(pipes) ==
    \A a \in {0, 1} :
        \E i \in DOMAIN pipes :
            /\ pipes[i].in = [index |-> a, fd |-> 1]
            /\ pipes[i].out = [index |-> 1 - a, fd |-> 0]

\* C19: for an Interaction submission every testcase that is run takes one
\* /run carrying the user command and the interactor with crossed pipes;
\* a user status other than Accepted gives the verdict of the status map,
\* else an interactor status other than Accepted gives WrongAnswer, else the
\* verdict is Accepted; the checker's check() is never invoked.
C19_InteractiveVerdict ==
    submission.type = "Interaction" =>
        /\ RunsOf({"testcase", "check"}) = {}
        /\ Crossed(pipeMapping)
        /\ \A j \in DOMAIN result.testcases :
              Cardinality({n \in RunsOf({"interaction"}) : http[n].tc = j})
                 = IF result.testcases[j].judge = "Skipped" THEN 0 ELSE 1
        /\ (answer.kind = "interaction" /\ ~answer.raised) =>
              /\ Len(result.testcases) = answer.tc
              /\ result.testcases[answer.tc].judge =
                    IF answer.status # "Accepted"
                    THEN VerdictOfStatus(answer.status)
                    ELSE IF answer.interactor # "Accepted" THEN "WrongAnswer"
                    ELSE "Accepted"

\* C19 witness: the user program ended Accepted and the interactor with a
\* nonzero exit status, on the second testcase after a RuntimeError.
C19_Witness ==
    /\ answer.kind = "interaction"
    /\ answer.tc = 2
    /\ answer.status = "Accepted"
    /\ answer.interactor = "Nonzero Exit Status"
    /\ Len(result.testcases) = 2
    /\ result.testcases[1].judge = "RuntimeError"
    /\ result.testcases[2].judge = "WrongAnswer"

\* C20: the verdict of DefaultChecker.check is the comparator's exit code,
\* 0 Accepted, 1 WrongAnswer, 2 PresentationError; any other exit code is a
\* failure of the checker, recorded as SystemError for that testcase.
C20_ExitCodeVerdict ==
    (submission.type = "Traditional" /\ answer.kind = "check"
                                     /\ ~answer.raised) =>
        /\ Len(result.testcases) = answer.tc
        /\ result.testcases[answer.tc].judge =
              IF answer.exitStatus = 0 THEN "Accepted"
              ELSE IF answer.exitStatus = 1 THEN "WrongAnswer"
              ELSE IF answer.exitStatus = 2 THEN "PresentationError"
              ELSE "SystemError"

\* C20 witness: the comparator left with code 2 on the first testcase and
\* with a code outside 0..2 on the second.
C20_Witness ==
    /\ submission.type = "Traditional"
    /\ answer.kind = "check"
    /\ answer.tc = 2
    /\ ~answer.raised
    /\ answer.exitStatus = 3
    /\ Len(result.testcases) = 2
    /\ result.testcases[1].judge = "PresentationError"
    /\ result.testcases[2].judge = "SystemError"

\* C21: the verdict of TestlibChecker.check follows the sandbox status,
\* Accepted for Accepted, WrongAnswer for Nonzero Exit Status, SystemError
\* for every other status; the check of a SpecialJudge submission stages
\* the user's stdout as outfile and the expected answer as ansfile.
C21_TestlibVerdict ==
    submission.type = "SpecialJudge" =>
        /\ (answer.kind = "check" /\ ~answer.raised) =>
              /\ Len(result.testcases) = answer.tc
              /\ result.testcases[answer.tc].judge =
                    IF answer.status = "Accepted" THEN "Accepted"
                    ELSE IF answer.status = "Nonzero Exit Status"
                         THEN "WrongAnswer"
                    ELSE "SystemError"
        /\ pc = "check" =>
              /\ Checker_copyIn["outfile"] = <<"PreparedFile", cur.output_file>>
              /\ Checker_copyIn["ansfile"] = <<"output", idx>>
              /\ cur.output_file \in Returned_ids({"testcase"})

\* C21 witness: a special judge answered Nonzero Exit Status on the first
\* testcase and Signalled on the second.
C21_Witness ==
    /\ submission.type = "SpecialJudge"
    /\ answer.kind = "check"
    /\ answer.tc = 2
    /\ answer.status = "Signalled"
    /\ Len(result.testcases) = 2
    /\ result.testcases[1].judge = "WrongAnswer"
    /\ result.testcases[2].judge = "SystemError"

\* C31: a run starts only on a Pending judge; a call of get_result() that
\* started a run returns only from cleanup, whichever way run() ended, and
\* cleanup returns at once, so it executes exactly once per run; when it
\* returns a DELETE has been issued for the compiled user artifact if one
\* was created; and the step of cleanup, failing or not, leaves the stored
\* result as it is and ends in the return of get_result().
C31_CleanupOnce ==
    [][/\ (pc = "idle" /\ pc' # "idle") => result.judge = "Pending"
       /\ (pc # "idle" /\ pc' = "idle") => pc = "cleanup"
       /\ pc = "cleanup" =>
             /\ pc' = "idle"
             /\ calls' = calls + 1
             /\ result' = result
             /\ compiled_file # None =>
                   \E n \in DOMAIN http' :
                      /\ http'[n].op = "DELETE"
                      /\ http'[n].ids = {compiled_file}]_vars

\* C31 witness: the checker compile failed after the user compile made an
\* artifact, the delete of the artifact raised inside cleanup (its task
\* stays in the list), and get_result() returned SystemError.
C31_Witness ==
    /\ Returned
    /\ compiled_file # None
    /\ checker_file = None
    /\ submission.testcases # <<>>
    /\ cleanup_tasks # <<>>
    /\ result.judge = "SystemError"

\* The /run calls of the given kinds that returned a file id.
MadeFile(kinds) == {n \in RunsOf(kinds) : http[n].out # {}}

\* C32: every testcase /run comes after a user compile that was answered
\* Accepted with an artifact (every registered language needs one) and
\* after a checker compile that succeeded, in this order; the user compile
\* is issued at most once; the aggregation starts when every testcase has
\* its result; and when the checker compile fails the run ends with
\* SystemError, no testcase result and no testcase /run.
C32_StepOrder ==
    /\ \A t \in TestcaseRuns :
          \E u \in MadeFile({"compile"}), k \in MadeFile({"checker_compile"}) :
             u < k /\ k < t
    /\ Cardinality(RunsOf({"compile"})) <= 1
    /\ pc = "aggregate" => Len(result.testcases) = Len(submission.testcases)
    /\ (pc \in {"cleanup", "idle"} /\ MadeFile({"compile"}) # {}
          /\ submission.testcases # <<>> /\ checker_file = None) =>
             /\ result.judge = "SystemError"
             /\ result.testcases = <<>>
             /\ TestcaseRuns = {}

\* C32 witness: a run of two testcases reached the aggregation.
C32_Witness ==
    /\ pc = "aggregate"
    /\ Cardinality(TestcaseRuns) >= 2
    /\ MadeFile({"compile"}) # {}
    /\ MadeFile({"checker_compile"}) # {}

\* The scaled limits as the claim C33 words them: ns, ns and bytes.
C33_cpuLimit == submission.timeLimit * language.time_factor * 1000000

C33_memoryLimit == submission.memoryLimit * language.memory_factor * 1024

\* Every /run of a user program carries the scaled limits.
LimitsSent ==
    \A n \in RunsOf({"testcase", "interaction"}) :
        /\ http[n].cpuLimit = C33_cpuLimit
        /\ http[n].clockLimit = 2 * C33_cpuLimit
        /\ http[n].memoryLimit = C33_memoryLimit

\* The sandbox has reported the usage of the user program of testcase
\* answer.tc, and the result of that testcase is recorded.
Executed ==
    \/ answer.kind \in {"testcase", "interaction"} /\ ~answer.raised
          /\ pc # "check"
    \/ answer.kind = "check"

\* The recorded time and memory of the testcase are the reported ones,
\* clamped to the limits and converted to ms and KiB.
RecordedClamped ==
    LET rec == result.testcases[answer.tc] IN
    /\ rec.time = Min(answer.usage[1], C33_cpuLimit) \div 1000000
    /\ rec.memory = Min(answer.usage[2], C33_memoryLimit) \div 1024

RecordedWithinLimits ==
    LET rec == result.testcases[answer.tc] IN
    /\ rec.time <= submission.timeLimit * language.time_factor
    /\ rec.memory <= submission.memoryLimit * language.memory_factor

\* C33 as stated: every /run of a user program carries cpuLimit, clockLimit
\* and memoryLimit scaled as above, and the result recorded for every
\* executed testcase has the reported time and memory clamped to them.
C33_ClampedAlways ==
    /\ LimitsSent
    /\ Executed => (RecordedClamped /\ RecordedWithinLimits)

\* C33 amended: the limits are carried as stated, every recorded result is
\* within them, and it is the clamped report unless the testcase raised
\* after the sandbox had reported (no stdout fileId, the checker raising),
\* in which case time and memory are recorded as 0.
C33_ClampedUnlessRaised ==
    /\ LimitsSent
    /\ Executed =>
          /\ RecordedWithinLimits
          /\ IF TestcaseRaised
             THEN /\ result.testcases[answer.tc].time = 0
                  /\ result.testcases[answer.tc].memory = 0
             ELSE RecordedClamped

\* C33 witness: an interactive run under Java's factor 2 reported more
\* time than the limit and is recorded with the limit.
C33_Witness ==
    /\ answer.kind = "interaction"
    /\ ~answer.raised
    /\ language.time_factor = 2
    /\ answer.usage[1] > C33_cpuLimit
    /\ result.testcases[answer.tc].time = 2 * submission.timeLimit

\* The positions of the result vector that hold a limit verdict.
LimitAt ==
    {i \in DOMAIN result.testcases :
        result.testcases[i].judge \in LimitVerdicts}

\* C37: at every moment of the test loop and after it, the result vector
\* holds at most one limit verdict, every entry after it is Skipped, every
\* Skipped entry comes after it, and some verdict of the vector is
\* Accepted or listed in STATUS_PRIORITY whenever not all are Accepted, so
\* that the aggregation never falls through to 'no status found'.
C37_OneLimitVerdict ==
    /\ Cardinality(LimitAt) <= 1
    /\ \A i \in LimitAt : \A j \in DOMAIN result.testcases :
          j > i => result.testcases[j].judge = "Skipped"
    /\ \A j \in DOMAIN result.testcases :
          result.testcases[j].judge = "Skipped" => \E i \in LimitAt : i < j
    /\ \/ \A i \in DOMAIN result.testcases :
             result.testcases[i].judge = "Accepted"
       \/ \E i \in DOMAIN result.testcases, n \in DOMAIN STATUS_PRIORITY :
             result.testcases[i].judge = STATUS_PRIORITY[n]

\* C37 witness: the loop has ended on a vector whose first entry is a
\* limit verdict and whose last entry is Skipped.
C37_Witness ==
    /\ pc = "aggregate"
    /\ Len(result.testcases) = MaxTests
    /\ LimitAt = {1}
    /\ result.testcases[MaxTests].judge = "Skipped"

\* ==================================================================
\* Properties of the FileCache (SpecCache)
\* ==================================================================

\* What C9 says of a get(k) that returns, for a k that was set before:
\* the file last set, when no more than Expire has passed since k was
\* last set or found; nothing, with a DELETE sent for that file, when more
\* than Expire + RecycleGap has passed.
GetAsCached ==
    /\ ret.since <= Expire => ret.value = ret.want
    /\ ret.since > Expire + RecycleGap => ret.value = None /\ ret.deleted

CacheDeleted ==
    UNION {http[n].ids : n \in {m \in DOMAIN http : http[m].op = "DELETE"}}

\* What set(k, f2) leaves when it found f1 under k: f2 stored under k, one
\* new delete task, for f1, when there was an f1 other than f2, and no new
\* task when k was new.
SetReplaces ==
    /\ DictGet(files, c_last.key) = c_last.file
    /\ c_last.key \in DOMAIN last_access
    /\ (c_last.old # None /\ c_last.old # c_last.file) =>
          /\ Len(c_tasks) = c_last.tasks + 1
          /\ c_tasks[Len(c_tasks)] = CacheTask(c_last.old)
    /\ c_last.old = None =>
          c_tasks = SubSeq(c_tasks, 1, c_last.tasks)

C26_CloseJoins ==
    /\ (c_last.op = "close" /\ c_last.end = "returned") =>
          /\ recycle_task \in {"none", "cancelled"}
          /\ c_last.had \subseteq CacheDeleted
          /\ \A i \in DOMAIN c_tasks : c_tasks[i].state = "done"
          /\ files = EmptyDict
          /\ last_access = EmptyDict
    /\ (c_last.op = "close" /\ c_last.end = "no-op") =>
          /\ Len(c_tasks) = c_last.tasks
          /\ Stored = c_last.had
          /\ c_pc = "idle"

\* C26 witness: close() returned from a cache that held two files, the
\* evictor cancelled.
C26_Witness ==
    /\ c_last.op = "close"
    /\ c_last.end = "returned"
    /\ c_last.had = {1, 2}
    /\ recycle_task = "cancelled"

\* C27: a failing sandbox delete is dropped: close() does not fail and
\* clears both maps all the same, and the evictor is not stopped by it.
C27_DeleteFailureDropped ==
    /\ (c_last.op = "close" /\ c_last.end # "no-op") =>
          /\ c_last.end = "returned"
          /\ files = EmptyDict
          /\ last_access = EmptyDict
    /\ (~c_closed /\ ops > 0) => recycle_task \in {"created", "sleeping"}

\* Every file was given to set() once: the cache alone holds it, under one
\* identifier.
Fresh == \A f \in CacheFiles : given[f] <= 1

\* The identifiers whose entry the step removes from an open cache: only
\* the evictor does that.
Evicts == IF c_closed' THEN {} ELSE DOMAIN files \ DOMAIN files'

C39_ParallelMaps == LockFree => DOMAIN files = DOMAIN last_access

\* C39 witness: the maps hold one identifier after the evictor has removed
\* another and a get has refreshed the one that stays.
C39_Witness ==
    /\ LockFree
    /\ Cardinality(DOMAIN files) = 1
    /\ DOMAIN last_access = DOMAIN files
    /\ ops = 2
    /\ CacheDeleted # {}
    /\ ret.key \in DOMAIN files
    /\ \A k \in Keys : expected[k] # None
    /\ ~c_closed

\* close() has returned and left the cache empty.
ClosedEmpty == c_closed /\ c_pc = "idle" /\ files = EmptyDict

\* C40: when close() returns the cache is empty and no evictor task is
\* left, and from then on, whatever set calls follow, the cache stays
\* empty and no evictor starts, so that no file is held that nobody will
\* delete.
C40_ClosedStaysEmpty ==
    /\ []((c_last.op = "close" /\ c_last.end = "returned") =>
            (ClosedEmpty /\ recycle_task \in {"none", "cancelled"}))
    /\ [][ClosedEmpty =>
            /\ files' = EmptyDict
            /\ recycle_task' \in {"none", "cancelled"}]_vars

\* No /run of the log stages a file id that an earlier DELETE of the same
\* log names.
NoRunAfterDelete(log) ==
    \A n \in DOMAIN log : log[n].op = "run" =>
        \A m \in 1..(n - 1) :
            log[m].op = "DELETE" => log[m].ids \cap log[n].ids = {}

\* What a get() returns has no delete task in the cache and no DELETE sent.
GetReturnsLive ==
    (ret.key \in Keys /\ ret.value # None) =>
        /\ \A i \in DOMAIN c_tasks : c_tasks[i].fileId # ret.value
        /\ ret.value \notin CacheDeleted

\* C38: no use after delete. No /run of the pipeline or of a checker
\* stages a PreparedFile id for which a DELETE was already issued, and
\* FileCache.get never returns a file for which the cache has scheduled a
\* DELETE, also after set(k, f) with f already stored under k.
C38_NoUseAfterDelete ==
    /\ NoRunAfterDelete(http)
    /\ NoRunAfterDelete(k_log)
    /\ GetReturnsLive

\* ==================================================================
\* Properties of the scheduler (SpecSched)
\* ==================================================================

\* The records pushed on the result queue with this sid, in order.
RecordsOf(sid) == SelectSeq(result_queue, LAMBDA r : r.sid = sid)

\* The sids of the submissions that workers have dequeued.
Dequeued ==
    finished \cup {worker[w].sid : w \in {v \in Workers :
                                          worker[v].sid # None}}

\* A progress record, then at most one record that is not a progress
\* record; both of them once process() has ended for the sid.
ProgressThenFinal(sid) ==
    LET rs == RecordsOf(sid)
    IN  /\ Len(rs) <= 2
        /\ Len(rs) >= 1 => rs[1].judge = "RunningJudge"
        /\ Len(rs) = 2 => rs[2].judge # "RunningJudge"
        /\ sid \in finished => Len(rs) = 2

Popped ==
    {s \in 1..produced : \A i \in DOMAIN task_queue : task_queue[i].sid # s}

\* A record that is not a progress record is on the result queue for sid.
HasFinal(sid) ==
    \E i \in DOMAIN result_queue :
        /\ result_queue[i].sid = sid
        /\ result_queue[i].judge # "RunningJudge"

\* C11: no submission is left dangling: every payload a worker has popped
\* from the task queue gets a final record on the result queue, also when
\* the payload does not parse or a push raises. Once no worker is
\* processing a popped payload any more nothing will push for it, so its
\* final record has to be there.
C11_NoDangling ==
    \A sid \in Popped \ Held : HasFinal(sid)

\* Worker w leaves the except clause of process(): Judger(...) had raised
\* and the push of the fallback record has ended.
FallbackEnds(w) == worker[w].pc = "fallback" /\ worker'[w].pc # "fallback"

\* The step pushes {sid, SystemError} for w's submission and w is back at
\* the head of its loop, no exception having left process().
FallbackPublished(w) ==
    /\ Len(result_queue') = Len(result_queue) + 1
    /\ SubSeq(result_queue', 1, Len(result_queue)) = result_queue
    /\ result_queue'[Len(result_queue')].sid = worker[w].sid
    /\ result_queue'[Len(result_queue')].judge = "SystemError"
    /\ worker'[w].pc = "loop"
    /\ ~worker'[w].error

C13_FinalFromPipeline ==
    [][(/\ Len(result_queue') = Len(result_queue) + 1
        /\ result_queue'[Len(result_queue')].judge # "RunningJudge")
       => \E w \in Workers :
             /\ worker[w].pc = "push_result"
             /\ worker[w].sid = result_queue'[Len(result_queue')].sid]_vars

\* C35: while running is false no step brings a worker into a blocking
\* pop, whether from the loop or from a pop that timed out; a payload leaves
\* the task queue only through a worker that was blocked in a pop; and
\* the step of stop() leaves every worker where it is, so that a
\* submission returned by the pop in flight is processed to its end.
\* Hence a worker dequeues at most one submission after stop().
C35_NoPopAfterStop ==
    [][/\ ~running =>
             \A w \in Workers :
                worker'[w] # worker[w] => worker'[w].pc # "blpop"
       /\ Len(task_queue') < Len(task_queue) =>
             /\ Len(task_queue') = Len(task_queue) - 1
             /\ \E w \in Workers :
                   worker[w].pc = "blpop" /\ worker'[w].pc # "blpop"
       /\ (running /\ ~running') => worker' = worker]_vars

\* C35 witness: after stop() a worker processes a submission that no
\* worker held when stop() was called.
C35_Witness ==
    /\ ~running
    /\ stop_call.pc = "waiting"
    /\ \E w \in Workers :
         /\ worker[w].pc = "progress"
         /\ worker[w].sid \notin stop_call.held

\* ==================================================================
\* Workers and their pipelines (SpecWorker)
\* ==================================================================

\* The testcase /run calls that the step adds to the sandbox log.
NewTestcaseRuns ==
    {n \in DOMAIN http' \ DOMAIN http :
        http'[n].op = "run"
        /\ http'[n].kind \in {"testcase", "check", "interaction"}}

\* C34: no two workers hold the same submission and at most as many
\* submissions are held as there are workers; a payload that a worker
\* holds or has finished is on the task queue no more, and at most one
\* progress record and one final record are pushed for it; and in a
\* pipeline a step issues at most one testcase /run, the one of the
\* testcase that follows the verdicts recorded so far, the checker's /run
\* belonging to the testcase whose run has just been answered.
C34_OneAtATime ==
    /\ [](/\ \A v, w \in Workers :
               (v # w /\ worker[v].sid # None) => worker[v].sid # worker[w].sid
          /\ Cardinality(Held) <= Cardinality(Workers)
          /\ \A sid \in Dequeued :
               /\ \A i \in DOMAIN task_queue : task_queue[i].sid # sid
               /\ Len(RecordsOf(sid)) <= 2
               /\ Len(SelectSeq(RecordsOf(sid),
                                LAMBDA r : r.judge = "RunningJudge")) <= 1)
    /\ [][/\ Cardinality(NewTestcaseRuns) <= 1
           /\ \A n \in NewTestcaseRuns :
                /\ http'[n].tc = Len(result.testcases) + 1
                /\ http'[n].kind = "check" <=> pc = "check"]_vars

\* C34 witness: both workers hold a submission at once, each its own.
C34_Witness ==
    /\ \A w \in Workers : worker[w].sid # None
    /\ Cardinality(Held) = 2

\* ==================================================================
\* Shutdown of the scheduler (SpecSchedFair)
\* ==================================================================

\* Every processor task has ended.
AllEnded == \A w \in Workers : worker[w].pc = "done"

CallsOfLast == SubSeq(k_log, k_last.sent + 1, Len(k_log))

RunsOfLast == SelectSeq(CallsOfLast, LAMBDA c : c.op = "run")

DeletesOfLast == SelectSeq(CallsOfLast, LAMBDA c : c.op = "DELETE")

\* C22: compile() on a checker whose binary is known makes no /run and
\* leaves compiled_file as it is; a compile that fails raises, its error
\* carrying the stderr the sandbox captured, and leaves compiled_file
\* unset, so that the next compile() sends the /run again.
C22_CompileIdempotent ==
    k_last.op = "compile" =>
        /\ k_last.had # None =>
              /\ CallsOfLast = <<>>
              /\ k_file = k_last.had
              /\ k_last.end = "returned"
        /\ k_last.had = None =>
              /\ Len(DeletesOfLast) = 0
              /\ Len(RunsOfLast) = 1 \/ k_last.error = "FileNotFoundError"
              /\ k_last.end = "raised" => k_file = None
              /\ k_last.end = "returned" =>
                    /\ k_file # None
                    /\ k_last.answer.status = "Accepted"
              /\ k_last.answer.status \notin {"none", "Accepted"} =>
                    /\ k_last.end = "raised"
                    /\ k_last.stderr = k_last.answer.stderr

\* C22 witness: a compile failed with a stderr, the next one sent the /run
\* again and succeeded, and a third one has just returned without a call.
C22_Witness ==
    /\ k_last.op = "compile"
    /\ k_last.had # None
    /\ k_ops = 3
    /\ Len(k_log) = 2
    /\ k_log[1] = RunCall("checker_compile", 0, {}, {})
    /\ k_log[2] = RunCall("checker_compile", 0, {}, {k_file})

\* What check() does on its client: one /run, nothing else, and
\* compiled_file as it was.
OneRunOnly ==
    /\ Len(CallsOfLast) = 1
    /\ CallsOfLast[1].op = "run"
    /\ CallsOfLast[1].kind = "check"
    /\ k_file = k_last.had

\* C23 as stated: each check(), in any state of the checker, makes exactly
\* one /run and no other sandbox call and changes no checker state.
C23_CheckAnyState == k_last.op = "check" => OneRunOnly

\* C23 amended: each check() on a checker whose binary is compiled makes
\* exactly one /run and no other sandbox call and changes no checker state.
C23_CheckCompiled ==
    (k_last.op = "check" /\ k_last.had # None) => OneRunOnly

\* C23 witness: a check on a compiled checker ended with WrongAnswer.
C23_Witness ==
    /\ k_last.op = "check"
    /\ k_last.had # None
    /\ k_last.end = "returned"
    /\ k_last.error = "WrongAnswer"

\* The DELETE calls of the log for file id.
DeletesOf(id) == SelectSeq(k_log, LAMBDA c : c.op = "DELETE" /\ id \in c.ids)

\* C24: close() sends a DELETE for the compiled binary if and only if the
\* checker compiled one, and over any sequence of compile, check and close
\* calls the binary's id is deleted at most once.
C24_CloseDeletesOnce ==
    /\ k_last.op = "close" =>
          /\ Len(RunsOfLast) = 0
          /\ IF k_last.had # None
             THEN DeletesOfLast = <<DeleteCall(k_last.had)>>
             ELSE DeletesOfLast = <<>>
    /\ \A id \in 1..k_next : Len(DeletesOf(id)) <= 1

\* ==================================================================
\* Properties of a SandboxClient used on its own (SpecClient)
\* ==================================================================

\* The sandbox answered the call that has just ended.
Answered == h_last.op # "none" /\ h_last.answered

\* C28: every SandboxClient operation (run_command, upload_file,
\* download_file, delete_file, get_version) that the sandbox answers with a
\* status outside 2xx fails with a SandboxError.
C28_NonSuccessRaises ==
    (Answered /\ h_last.status \notin 200..299)
        => (h_last.end = "raised" /\ h_last.error = "SandboxError")

\* C28 as the code has it: on an answer with a status of 400 or above,
\* run_command and upload_file fail with aiohttp's ClientResponseError,
\* download_file returns None, delete_file returns False, and get_version,
\* which does not look at the status, returns the body when it is JSON and
\* fails with ContentTypeError when it is not.
C28_NonSuccessByOperation ==
    (Answered /\ h_last.status >= 400) =>
        /\ h_last.op \in {"run_command", "upload_file"}
               => (h_last.end = "raised"
                   /\ h_last.error = "ClientResponseError")
        /\ h_last.op = "download_file"
               => (h_last.end = "returned" /\ h_last.value = "None")
        /\ h_last.op = "delete_file"
               => (h_last.end = "returned" /\ h_last.value = "False")
        /\ h_last.op = "get_version"
               => \/ h_last.end = "returned" /\ h_last.value = "body"
                  \/ h_last.end = "raised"
                     /\ h_last.error = "ContentTypeError"

\* The sandbox answers a run_command with 500, and the call raises.
C28_Witness ==
    /\ Answered
    /\ h_last.op = "run_command"
    /\ h_last.status = 500
    /\ h_last.end = "raised"

\* C29: on an answer of the sandbox, download_file of a file id the
\* sandbox does not hold returns None, delete_file of such an id returns
\* False, neither raises; delete_file returns True exactly when the answer
\* was 200; and a file id that was handed out and is held no more (it was
\* deleted with success) is deleted again with the result False.
C29_UnknownFileId ==
    /\ (Answered /\ h_last.op = "download_file" /\ ~h_last.known)
           => (h_last.end = "returned" /\ h_last.value = "None")
    /\ (Answered /\ h_last.op = "delete_file" /\ ~h_last.known)
           => (h_last.end = "returned" /\ h_last.value = "False")
    /\ (Answered /\ h_last.op = "delete_file")
           => /\ h_last.end = "returned"
              /\ h_last.value = "True" <=> h_last.status = 200
              /\ h_last.value = "True" => h_last.id \notin store

\* A file that was uploaded and deleted with success is deleted again, and
\* the sandbox answers that it does not hold it.
C29_Witness ==
    /\ Answered
    /\ h_last.op = "delete_file"
    /\ h_last.id \in 1..(h_next - 1)
    /\ ~h_last.known
    /\ h_last.status = 404
    /\ h_last.value = "False"

\* ==================================================================
\* Properties of the LanguageRegistry (SpecRegistry)
\* ==================================================================

\* C30: register of a language that is already registered fails with
\* ValueError and leaves the whole mapping, the existing entry included, as
\* it was; get_config of a language that is not registered fails with
\* ValueError; get_config of a registered language returns the entry it
\* was registered with, and no other register of that language returned.
C30_RegistryErrors ==
    /\ (l_last.op = "register" /\ l_last.lang \in DOMAIN l_last.had)
           => /\ l_last.end = "raised"
              /\ l_last.error = "ValueError"
              /\ l_mapping = l_last.had
    /\ (l_last.op = "get_config" /\ l_last.lang \notin DOMAIN l_last.had)
           => (l_last.end = "raised" /\ l_last.error = "ValueError")
    /\ (l_last.op = "get_config" /\ l_last.lang \in DOMAIN l_last.had)
           => /\ l_last.end = "returned"
              /\ \A p \in l_entered :
                    p[1] = l_last.lang => p[2] = l_last.value
              /\ <<l_last.lang, l_last.value>> \in l_entered

\* A registered language is registered again with another entry.
C30_Witness ==
    /\ l_last.op = "register"
    /\ l_last.lang \in DOMAIN l_last.had
    /\ l_last.config # l_last.had[l_last.lang]
    /\ l_last.end = "raised"

====
